---- MODULE Spec2Model ----
(***************************************************************************)
(* FourTen Markets: quoting, exposure ledger, wallet handlers and the      *)
(* settlement engine.  Money is counted in cents; odds are American odds;  *)
(* probabilities and decimal odds are exact fractions <<num, den>>.        *)
(***************************************************************************)
EXTENDS Integers, Sequences, FiniteSets, Bags, TLC

VARIABLES
    wallet,        \* Wallet rows: userId -> [balance, lockedBalance]
    betRequests,   \* BetRequest rows, in creation order
    bets,          \* Bet rows, in creation order
    parlays,       \* Parlay rows with their ParlayLeg rows
    settlements,   \* Settlement rows
    transactions,  \* Transaction rows (a bag: the table has no order)
    exposureCache, \* Redis key exposure:<selectionId>
    position,      \* Position.totalLiability per selection (durable)
    dailyStake,    \* Redis key daily_stake:<userId>:<day>
    redisUp,       \* whether the Redis server is reachable
    marketStatus,  \* Market.status
    eventStatus,   \* Event.status
    now,           \* wall clock, in minutes
    inflight,      \* handlers suspended between their reads and their writes
    last           \* the operation completed by the latest step, with its result

vars == <<wallet, betRequests, bets, parlays, settlements, transactions,
          exposureCache, position, dailyStake, redisUp, marketStatus,
          eventStatus, now, inflight, last>>

-----------------------------------------------------------------------------
(* Bounds of the model *)

MaxWagers == 2
MaxParlays == 1
MaxDeposits == 1
MaxWithdrawals == 1
MaxTime == 3
MaxInflight == 2

-----------------------------------------------------------------------------
(* The fixed catalogue: users, selections, markets, events, consensus odds *)

\* A selection without consensus odds reads as a falsy odds value.
NoOdds == 0

\* A Redis key: absent, or present with a numeric value.
Absent == [has |-> FALSE, val |-> 0]
Cached(v) == [has |-> TRUE, val |-> v]

Users == {"u1"}
Selections == {"s1", "s2", "s3"}
SelOrder == <<"s1", "s2", "s3">>
Markets == {"m1", "m2"}
Events == {"e1", "e2"}

marketOf == [s \in Selections |-> IF s = "s3" THEN "m2" ELSE "m1"]
eventOf == [m \in Markets |-> IF m = "m2" THEN "e2" ELSE "e1"]

\* ConsensusOdds.odds per selection; s3 is an unpriced selection.
consensus == [s \in Selections |->
                CASE s = "s1" -> -150
                  [] s = "s2" -> 130
                  [] OTHER -> NoOdds]

-----------------------------------------------------------------------------
(* Exact fractions *)

Abs(x) == IF x < 0 THEN -x ELSE x

\* Op applied to v, with v evaluated once (a local constant of the source)
With(v, Op(_)) == CHOOSE r \in {Op(x) : x \in {v}} : TRUE

\* Operands are bound as set elements so that each is evaluated once.
RECURSIVE GCD(_, _)
GCD(a, b) ==
    IF b = 0 THEN a ELSE CHOOSE g \in {GCD(b, r) : r \in {a % b}} : TRUE

Reduce(n, d, g) == <<(IF d < 0 THEN -n ELSE n) \div g, Abs(d) \div g>>

\* A fraction in lowest terms with a positive denominator.
Frac(n, d) ==
    CHOOSE f \in {Reduce(p[1], p[2], GCD(Abs(p[1]), Abs(p[2]))) : p \in {<<n, d>>}} :
        TRUE

FAdd(x, y) ==
    CHOOSE f \in {Frac(a[1] * b[2] + b[1] * a[2], a[2] * b[2]) :
                      a \in {x}, b \in {y}} : TRUE
FSub(x, y) ==
    CHOOSE f \in {Frac(a[1] * b[2] - b[1] * a[2], a[2] * b[2]) :
                      a \in {x}, b \in {y}} : TRUE
FMul(x, y) ==
    CHOOSE f \in {Frac(a[1] * b[1], a[2] * b[2]) : a \in {x}, b \in {y}} : TRUE
FDiv(x, y) ==
    CHOOSE f \in {Frac(a[1] * b[2], a[2] * b[1]) : a \in {x}, b \in {y}} : TRUE
FGe(x, y) == \E a \in {x}, b \in {y} : a[1] * b[2] >= b[1] * a[2]
FGt(x, y) == \E a \in {x}, b \in {y} : a[1] * b[2] > b[1] * a[2]
FMin(x, y) ==
    CHOOSE f \in {IF FGe(a, b) THEN b ELSE a : a \in {x}, b \in {y}} : TRUE
FMax(x, y) ==
    CHOOSE f \in {IF FGe(a, b) THEN a ELSE b : a \in {x}, b \in {y}} : TRUE
FInt(n) == <<n, 1>>

\* Math.round: the nearest integer, halves towards +infinity.
MathRound(x) ==
    CHOOSE n \in {(2 * a[1] + a[2]) \div (2 * a[2]) : a \in {x}} : TRUE

-----------------------------------------------------------------------------
(* odds-utils *)

americanToDecimal(american) ==
    IF american >= 100
    THEN FAdd(Frac(american, 100), FInt(1))
    ELSE FAdd(Frac(100, Abs(american)), FInt(1))

decimalToAmerican(decimal) ==
    IF FGe(decimal, FInt(2))
    THEN MathRound(FMul(FSub(decimal, FInt(1)), FInt(100)))
    ELSE MathRound(FDiv(FInt(-100), FSub(decimal, FInt(1))))

oddsToImpliedProb(american) == FDiv(FInt(1), americanToDecimal(american))

impliedProbToOdds(prob) == decimalToAmerican(FDiv(FInt(1), prob))

applyMargin(american, margin) ==
    With(oddsToImpliedProb(american), LAMBDA impliedProb :
    With(FAdd(impliedProb, FMul(impliedProb, margin)), LAMBDA withMargin :
        impliedProbToOdds(FMin(withMargin, Frac(95, 100)))))

\* stake in cents; toFixed(2) of the dollar amount is rounding to the cent
calcPayout(stake, american) ==
    MathRound(FMul(FInt(stake), americanToDecimal(american)))

-----------------------------------------------------------------------------
(* pricing-engine: constants (dollar amounts as written in the source) *)

EDGE_ACCEPT_THRESHOLD == Frac(2, 100)
EDGE_COUNTER_THRESHOLD == Frac(-5, 100)
PLATFORM_MARGIN == Frac(4, 100)
MAX_SELECTION_EXPOSURE == 50000
EXPOSURE_WARN_FRACTION == Frac(9, 10)
MAX_BET_STAKE == 5000
MAX_DAILY_STAKE == 25000
FALLBACK_LINE == -110

Cents(dollars) == dollars * 100

-----------------------------------------------------------------------------
(* pricing-engine: cache-first reads *)

\* safeGet: the cached value, or null when the key is absent or Redis is down
safeGet(cache, key) == IF redisUp THEN cache[key] ELSE Absent

\* The consensus odds never change in this model, so the 120 s cached copy
\* always equals the ConsensusOdds row and the read returns the row.
getConsensusOdds(selectionId) == consensus[selectionId]

getCurrentExposure(selectionId) ==
    LET cached == safeGet(exposureCache, selectionId)
    IN  IF cached.has THEN cached.val ELSE position[selectionId]

getDailyStake(userId) ==
    LET cached == safeGet(dailyStake, userId)
    IN  IF cached.has THEN cached.val ELSE 0

-----------------------------------------------------------------------------
(* pricing-engine: the Accept / Counter / Reject decision *)

roundToNearest5(american) == MathRound(Frac(american, 5)) * 5

reject(reason) ==
    [decision |-> "REJECT", acceptedOdds |-> 0, potentialPayout |-> 0,
     reason |-> reason]

counterOffer(requestedOdds, stake, consensusOdds, reason) ==
    With(oddsToImpliedProb(consensusOdds), LAMBDA fairProb :
    With(roundToNearest5(applyMargin(impliedProbToOdds(fairProb), PLATFORM_MARGIN)),
         LAMBDA counterOdds :
        [decision |-> "COUNTER", acceptedOdds |-> counterOdds,
         potentialPayout |-> calcPayout(stake, counterOdds), reason |-> reason]))

overStakeLimit(stake) == stake > Cents(MAX_BET_STAKE)

overDailyLimit(daily, stake) == daily + stake > Cents(MAX_DAILY_STAKE)

\* an engine without the exposure cap
overExposureLimit_never(projectedExposure) == FALSE

overExposureLimit(projectedExposure) ==
    projectedExposure > Cents(MAX_SELECTION_EXPOSURE)

isNearCapacity(projectedExposure) ==
    FGt(FInt(projectedExposure),
        FMul(FInt(Cents(MAX_SELECTION_EXPOSURE)), EXPOSURE_WARN_FRACTION))

projectedExposureOf(selectionId, requestedOdds, stake) ==
    getCurrentExposure(selectionId) + (calcPayout(stake, requestedOdds) - stake)

\* an engine that measures the edge from the bettor's side
edgeOf_bettorSide(requestedOdds, consensusOdds) ==
    FSub(oddsToImpliedProb(consensusOdds), oddsToImpliedProb(requestedOdds))

edgeOf(requestedOdds, consensusOdds) ==
    FSub(oddsToImpliedProb(requestedOdds), oddsToImpliedProb(consensusOdds))

evaluateBetRequest(userId, selectionId, requestedOdds, stake) ==
    IF overStakeLimit(stake) THEN reject("stake limit")
    ELSE IF overDailyLimit(getDailyStake(userId), stake) THEN reject("daily limit")
    ELSE LET consensusOdds == getConsensusOdds(selectionId) IN
    IF consensusOdds = NoOdds
    THEN counterOffer(requestedOdds, stake, FALLBACK_LINE, "no consensus")
    ELSE LET edge == edgeOf(requestedOdds, consensusOdds)
             projectedExposure ==
                 projectedExposureOf(selectionId, requestedOdds, stake)
             nearCapacity == isNearCapacity(projectedExposure)
    IN  IF overExposureLimit(projectedExposure) THEN reject("exposure limit")
        ELSE IF FGe(edge, EDGE_ACCEPT_THRESHOLD) /\ ~nearCapacity
        THEN [decision |-> "ACCEPT", acceptedOdds |-> requestedOdds,
              potentialPayout |-> calcPayout(stake, requestedOdds),
              reason |-> "accepted"]
        ELSE IF FGe(edge, EDGE_COUNTER_THRESHOLD) \/ nearCapacity
        THEN counterOffer(requestedOdds, stake, consensusOdds,
                          IF nearCapacity THEN "near exposure limit"
                                          ELSE "best available")
        ELSE reject("too far above market")

-----------------------------------------------------------------------------
(* parlay-engine *)

MIN_PARLAY_LEGS == 2
MAX_PARLAY_LEGS == 12

priceLeg(requestedOdds, consensusOdds) ==
    With(oddsToImpliedProb(requestedOdds), LAMBDA userProb :
    With(oddsToImpliedProb(consensusOdds), LAMBDA consensusProb :
    With(FSub(userProb, consensusProb), LAMBDA edge :
        IF FGe(edge, EDGE_ACCEPT_THRESHOLD)
        THEN [decision |-> "ACCEPT", acceptedOdds |-> requestedOdds,
              reason |-> "accepted"]
        ELSE IF FGe(edge, EDGE_COUNTER_THRESHOLD)
        THEN With(FSub(EDGE_ACCEPT_THRESHOLD, EDGE_COUNTER_THRESHOLD),
                  LAMBDA edgeRange :
             With(FMax(FInt(0),
                       FMin(FInt(1),
                            FDiv(FSub(edge, EDGE_COUNTER_THRESHOLD), edgeRange))),
                  LAMBDA pos :
             With(FAdd(consensusProb, FMul(pos, FSub(userProb, consensusProb))),
                  LAMBDA targetProb :
             With(roundToNearest5(impliedProbToOdds(targetProb)),
                  LAMBDA roundedOdds :
                 [decision |-> "COUNTER",
                  acceptedOdds |-> IF roundedOdds > consensusOdds
                                   THEN roundedOdds ELSE consensusOdds,
                  reason |-> "best available"]))))
        ELSE [decision |-> "REJECT", acceptedOdds |-> 0,
              reason |-> "too far above market"])))

rejectParlay(reason) ==
    [decision |-> "REJECT", legs |-> <<>>, combinedOdds |-> 0,
     potentialPayout |-> 0, reason |-> reason]

priceParlayLeg(leg) ==
    With(getConsensusOdds(leg.selectionId), LAMBDA consensusOdds :
    With(IF consensusOdds = NoOdds
         THEN [decision |-> "COUNTER", acceptedOdds |-> FALLBACK_LINE,
               reason |-> "no consensus"]
         ELSE priceLeg(leg.requestedOdds, consensusOdds), LAMBDA r :
        [selectionId |-> leg.selectionId, requestedOdds |-> leg.requestedOdds,
         decision |-> r.decision, acceptedOdds |-> r.acceptedOdds,
         reason |-> r.reason]))

RECURSIVE combineDecimal(_, _)
combineDecimal(legResults, n) ==
    IF n = 0 THEN FInt(1)
    ELSE FMul(combineDecimal(legResults, n - 1),
              americanToDecimal(legResults[n].acceptedOdds))

\* an engine in which the first leg decides for the whole slip
evaluateParlayRequest_firstLeg(userId, legs, stake) ==
    With(priceParlayLeg(legs[1]), LAMBDA r :
        [decision |-> r.decision, legs |-> <<r>>, combinedOdds |-> 0,
         potentialPayout |-> 0, reason |-> r.reason])

evaluateParlayRequest(userId, legs, stake) ==
    IF Len(legs) < MIN_PARLAY_LEGS THEN rejectParlay("at least 2 legs")
    ELSE IF Len(legs) > MAX_PARLAY_LEGS THEN rejectParlay("at most 12 legs")
    ELSE IF overStakeLimit(stake) THEN rejectParlay("stake limit")
    ELSE IF Cardinality({legs[i].selectionId : i \in DOMAIN legs}) # Len(legs)
    THEN rejectParlay("duplicate selections")
    ELSE IF overDailyLimit(getDailyStake(userId), stake)
    THEN rejectParlay("daily limit")
    ELSE With([i \in DOMAIN legs |-> priceParlayLeg(legs[i])], LAMBDA legResults :
         With({i \in DOMAIN legs : legResults[i].decision = "REJECT"},
              LAMBDA rejected :
        IF rejected # {}
        THEN [decision |-> "REJECT", legs |-> legResults, combinedOdds |-> 0,
              potentialPayout |-> 0,
              reason |-> legResults[CHOOSE i \in rejected :
                                        \A j \in rejected : i <= j].reason]
        ELSE With(combineDecimal(legResults, Len(legResults)),
                  LAMBDA combinedDecimal :
             [decision |->
                  IF \E i \in DOMAIN legs : legResults[i].decision = "COUNTER"
                  THEN "COUNTER" ELSE "ACCEPT",
              legs |-> legResults,
              combinedOdds |-> decimalToAmerican(combinedDecimal),
              potentialPayout |-> MathRound(FMul(FInt(stake), combinedDecimal)),
              reason |-> "priced"])))

-----------------------------------------------------------------------------
(* pricing-engine: exposure and daily-stake updates *)

\* safeIncrByFloat: INCRBYFLOAT creates an absent key at 0; a no-op when
\* Redis is unreachable
safeIncrByFloat(cache, key, increment) ==
    IF redisUp THEN [cache EXCEPT ![key] = Cached(@.val + increment)] ELSE cache

\* a ledger that gives up the durable write when the cache write failed
positionIncrement_cacheFirst(pos, selectionId, liability) ==
    IF redisUp THEN [pos EXCEPT ![selectionId] = @ + liability] ELSE pos

\* position.updateMany({ totalLiability: { increment } })
positionIncrement(pos, selectionId, liability) ==
    [pos EXCEPT ![selectionId] = @ + liability]

incrementExposureCache(cache, selectionId, liability) ==
    safeIncrByFloat(cache, selectionId, liability)

decrementExposureCache(cache, selectionId, liability) ==
    safeIncrByFloat(cache, selectionId, -liability)

incrementDailyStake(daily, userId, stake) ==
    safeIncrByFloat(daily, userId, stake)

-----------------------------------------------------------------------------
(* Initial state: users signed up with empty wallets, an open catalogue *)

\* what `last` holds after an operation whose result no property reads
Quiet == [op |-> "none"]

COUNTER_EXPIRY_MINUTES == 2
NoExpiry == -1

Init ==
    /\ wallet = [u \in Users |-> [balance |-> 0, lockedBalance |-> 0]]
    /\ betRequests = <<>>
    /\ bets = <<>>
    /\ parlays = <<>>
    /\ settlements = {}
    /\ transactions = EmptyBag
    /\ exposureCache = [s \in Selections |-> Absent]
    /\ position = [s \in Selections |-> 0]
    /\ dailyStake = [u \in Users |-> Absent]
    /\ redisUp = TRUE
    /\ marketStatus = [m \in Markets |-> "OPEN"]
    /\ eventStatus = [e \in Events |-> "UPCOMING"]
    /\ now = 0
    /\ inflight = <<>>
    /\ last = Quiet

available(w) == w.balance - w.lockedBalance

Tx(userId, type, amount) ==
    SetToBag({[walletId |-> userId, type |-> type, amount |-> amount]})

TxCount(type) ==
    LET S == {t \in BagToSet(transactions) : t.type = type}
    IN  BagCardinality([t \in S |-> CopiesIn(t, transactions)])

insufficient(amount, w) == amount > available(w)

-----------------------------------------------------------------------------
(* wallet/deposit and wallet/withdraw *)

DepositAmounts == {10000}
WithdrawAmounts == {4000}

DepositWrite(userId, amount) ==
    /\ wallet' = [wallet EXCEPT ![userId].balance = @ + amount]
    /\ transactions' = transactions (+) Tx(userId, "DEPOSIT", amount)
    /\ last' = Quiet
    /\ UNCHANGED <<betRequests, bets, parlays, settlements, exposureCache,
                   position, dailyStake, redisUp, marketStatus, eventStatus, now>>

WithdrawRead(userId, amount) == ~insufficient(amount, wallet[userId])

WithdrawWrite(userId, amount) ==
    /\ wallet' = [wallet EXCEPT ![userId].balance = @ - amount]
    /\ transactions' = transactions (+) Tx(userId, "WITHDRAWAL", amount)
    /\ last' = Quiet
    /\ UNCHANGED <<betRequests, bets, parlays, settlements, exposureCache,
                   position, dailyStake, redisUp, marketStatus, eventStatus, now>>

-----------------------------------------------------------------------------
(* bets/request *)

marketOpen(selectionId) == marketStatus[marketOf[selectionId]] = "OPEN"

BetRequestRead(userId, selectionId, requestedOdds, stake) ==
    [ok |-> marketOpen(selectionId) /\ ~insufficient(stake, wallet[userId]),
     result |-> evaluateBetRequest(userId, selectionId, requestedOdds, stake)]

requestStatusOf(decision) ==
    CASE decision = "ACCEPT" -> "CONFIRMED"
      [] decision = "COUNTER" -> "COUNTERED"
      [] OTHER -> "REJECTED"

BetRequestWrite(userId, selectionId, requestedOdds, stake, result) ==
    LET accepted == result.decision = "ACCEPT"
        potentialPayout == calcPayout(stake, requestedOdds)
        liability == potentialPayout - stake
        requestId == Len(betRequests) + 1
    IN
    /\ betRequests' = Append(betRequests,
           [userId |-> userId, selectionId |-> selectionId,
            requestedOdds |-> requestedOdds, stake |-> stake,
            status |-> requestStatusOf(result.decision),
            counteredOdds |-> IF result.decision = "COUNTER"
                              THEN result.acceptedOdds ELSE NoOdds,
            expiresAt |-> IF result.decision = "COUNTER"
                          THEN now + COUNTER_EXPIRY_MINUTES ELSE NoExpiry])
    /\ IF accepted
       THEN /\ wallet' = [wallet EXCEPT ![userId].lockedBalance = @ + stake]
            /\ transactions' = transactions (+) Tx(userId, "BET_STAKE", stake)
            /\ bets' = Append(bets,
                   [betRequestId |-> requestId, userId |-> userId,
                    selectionId |-> selectionId, odds |-> requestedOdds,
                    stake |-> stake, potentialPayout |-> potentialPayout,
                    status |-> "ACTIVE"])
            /\ exposureCache' =
                   incrementExposureCache(exposureCache, selectionId, liability)
            /\ position' = positionIncrement(position, selectionId, liability)
            /\ dailyStake' = incrementDailyStake(dailyStake, userId, stake)
       ELSE UNCHANGED <<wallet, transactions, bets, exposureCache, position,
                        dailyStake>>
    /\ last' = Quiet
    /\ UNCHANGED <<parlays, settlements, redisUp, marketStatus, eventStatus, now>>

-----------------------------------------------------------------------------
(* bets/confirm *)

\* a confirm handler that never looks at the expiry
isExpired_never(expiresAt, t) == FALSE

isExpired(expiresAt, t) == expiresAt # NoExpiry /\ expiresAt < t

\* the request can be confirmed by this user at all (404 / 403 / 400 otherwise)
BetConfirmFound(userId, requestId) ==
    /\ requestId \in DOMAIN betRequests
    /\ betRequests[requestId].userId = userId
    /\ betRequests[requestId].status = "COUNTERED"

BetConfirmExpire(userId, requestId) ==
    /\ betRequests' = [betRequests EXCEPT ![requestId].status = "EXPIRED"]
    /\ last' = [op |-> "betConfirm", userId |-> userId, requestId |-> requestId,
                outcome |-> "expired"]
    /\ UNCHANGED <<wallet, bets, parlays, settlements, transactions,
                   exposureCache, position, dailyStake, redisUp, marketStatus,
                   eventStatus, now>>

BetConfirmRead(userId, requestId) ==
    /\ marketOpen(betRequests[requestId].selectionId)
    /\ ~insufficient(betRequests[requestId].stake, wallet[userId])

BetConfirmWrite(userId, requestId) ==
    LET betRequest == betRequests[requestId]
        finalOdds == betRequest.counteredOdds
        stake == betRequest.stake
        potentialPayout == calcPayout(stake, finalOdds)
        liability == potentialPayout - stake
    IN
    /\ wallet' = [wallet EXCEPT ![userId].lockedBalance = @ + stake]
    /\ bets' = Append(bets,
           [betRequestId |-> requestId, userId |-> userId,
            selectionId |-> betRequest.selectionId, odds |-> finalOdds,
            stake |-> stake, potentialPayout |-> potentialPayout,
            status |-> "ACTIVE"])
    /\ betRequests' = [betRequests EXCEPT ![requestId].status = "CONFIRMED"]
    /\ transactions' = transactions (+) Tx(userId, "BET_STAKE", stake)
    /\ exposureCache' =
           incrementExposureCache(exposureCache, betRequest.selectionId, liability)
    /\ position' = positionIncrement(position, betRequest.selectionId, liability)
    /\ dailyStake' = incrementDailyStake(dailyStake, userId, stake)
    /\ last' = [op |-> "betConfirm", userId |-> userId, requestId |-> requestId,
                outcome |-> "confirmed"]
    /\ UNCHANGED <<parlays, settlements, redisUp, marketStatus, eventStatus, now>>

-----------------------------------------------------------------------------
(* bets/parlay (request) and bets/parlay/confirm *)

ParlayRequestRead(userId, legs, stake) ==
    [ok |-> /\ \A i \in DOMAIN legs : marketOpen(legs[i].selectionId)
            /\ ~insufficient(stake, wallet[userId]),
     result |-> evaluateParlayRequest(userId, legs, stake)]

parlayStatusOf(decision) ==
    CASE decision = "ACCEPT" -> "ACTIVE"
      [] decision = "COUNTER" -> "PENDING"
      [] OTHER -> "VOIDED"

ParlayRequestWrite(userId, legs, stake, result) ==
    /\ parlays' = Append(parlays,
           [userId |-> userId, stake |-> stake,
            combinedOdds |-> result.combinedOdds,
            potentialPayout |-> result.potentialPayout,
            status |-> parlayStatusOf(result.decision),
            placedAt |-> now,
            legs |-> [i \in DOMAIN result.legs |->
                        [selectionId |-> result.legs[i].selectionId,
                         requestedOdds |-> result.legs[i].requestedOdds,
                         acceptedOdds |-> result.legs[i].acceptedOdds,
                         result |-> "PENDING"]]])
    /\ IF result.decision = "ACCEPT"
       THEN /\ wallet' = [wallet EXCEPT ![userId].lockedBalance = @ + stake]
            /\ transactions' = transactions (+) Tx(userId, "BET_STAKE", stake)
            /\ dailyStake' = incrementDailyStake(dailyStake, userId, stake)
       ELSE UNCHANGED <<wallet, transactions, dailyStake>>
    /\ last' = Quiet
    /\ UNCHANGED <<betRequests, bets, settlements, exposureCache, position,
                   redisUp, marketStatus, eventStatus, now>>

parlayExpired(placedAt, t) == t > placedAt + COUNTER_EXPIRY_MINUTES

ParlayConfirmFound(userId, parlayId) ==
    /\ parlayId \in DOMAIN parlays
    /\ parlays[parlayId].userId = userId
    /\ parlays[parlayId].status = "PENDING"

ParlayConfirmExpire(userId, parlayId) ==
    /\ parlays' = [parlays EXCEPT ![parlayId].status = "VOIDED"]
    /\ last' = [op |-> "parlayConfirm", userId |-> userId, parlayId |-> parlayId,
                outcome |-> "expired"]
    /\ UNCHANGED <<wallet, betRequests, bets, settlements, transactions,
                   exposureCache, position, dailyStake, redisUp, marketStatus,
                   eventStatus, now>>

ParlayConfirmRead(userId, parlayId) ==
    ~insufficient(parlays[parlayId].stake, wallet[userId])

ParlayConfirmWrite(userId, parlayId) ==
    LET stake == parlays[parlayId].stake IN
    /\ parlays' = [parlays EXCEPT ![parlayId].status = "ACTIVE"]
    /\ wallet' = [wallet EXCEPT ![userId].lockedBalance = @ + stake]
    /\ transactions' = transactions (+) Tx(userId, "BET_STAKE", stake)
    /\ dailyStake' = incrementDailyStake(dailyStake, userId, stake)
    /\ last' = [op |-> "parlayConfirm", userId |-> userId, parlayId |-> parlayId,
                outcome |-> "confirmed"]
    /\ UNCHANGED <<betRequests, bets, settlements, exposureCache, position,
                   redisUp, marketStatus, eventStatus, now>>

-----------------------------------------------------------------------------
(* settlement-engine: settleEvent                                          *)
(* The run threads a record D of the rows it reads and writes; a fault     *)
(* names the one database write of the run that fails, if any.             *)

NoFault == [kind |-> "none", id |-> 0, at |-> 0]

\* writes of one bet, in program order
W_SETTLEMENT == 1
W_BET == 2
W_WALLET == 3
W_TRANSACTION == 4
W_POSITION == 5
\* writes of one parlay, in program order
P_PARLAY == 1
P_WALLET == 2
P_TRANSACTION == 3

\* a run that picks up every bet on the selection, settled or not
activeBetsOn_anyStatus(betRows, selectionId) ==
    {i \in DOMAIN betRows : betRows[i].selectionId = selectionId}

activeBetsOn(betRows, selectionId) ==
    {i \in DOMAIN betRows :
        betRows[i].selectionId = selectionId /\ betRows[i].status = "ACTIVE"}

\* a settlement that returns only the stake of a winning bet
betPayout_stakeOnly(bet, result) ==
    IF result = "LOST" THEN 0 ELSE bet.stake

betPayout(bet, result) ==
    IF result = "WON" THEN calcPayout(bet.stake, bet.odds)
    ELSE IF result = "VOID" THEN bet.stake
    ELSE 0

betStatusOf(result) ==
    IF result = "WON" THEN "WON" ELSE IF result = "VOID" THEN "VOIDED" ELSE "LOST"

hasWallet(D, userId) == userId \in DOMAIN D.wallet

settleBet(D, i, result, fault) ==
    With(betPayout(D.bets[i], result), LAMBDA payout :
    LET bet == D.bets[i]
        liability == bet.potentialPayout - bet.stake
        at == IF fault.kind = "bet" /\ fault.id = i THEN fault.at ELSE 0
        \* the write that throws, if it is one this bet performs
        thrown == IF at = W_TRANSACTION /\ payout = 0 THEN 0 ELSE at
        done(w) == thrown = 0 \/ w < thrown
        noWallet == done(W_BET) /\ ~hasWallet(D, bet.userId)
        paid(w) == done(w) /\ ~noWallet
    IN  [D EXCEPT
           !.settlements = IF done(W_SETTLEMENT)
                           THEN @ \cup {[betId |-> i, result |-> result,
                                         payout |-> payout]}
                           ELSE @,
           !.bets = IF done(W_BET)
                    THEN [@ EXCEPT ![i].status = betStatusOf(result)] ELSE @,
           !.wallet = IF paid(W_WALLET)
                      THEN [@ EXCEPT ![bet.userId] =
                              [balance |-> @.balance + payout,
                               lockedBalance |-> @.lockedBalance - bet.stake]]
                      ELSE @,
           !.transactions = IF paid(W_TRANSACTION) /\ payout > 0
                            THEN @ (+) Tx(bet.userId,
                                          IF result = "VOID" THEN "BET_REFUND"
                                                             ELSE "BET_PAYOUT",
                                          payout)
                            ELSE @,
           !.exposureCache = IF paid(W_TRANSACTION)
                             THEN decrementExposureCache(@, bet.selectionId, liability)
                             ELSE @,
           !.position = IF paid(W_POSITION)
                        THEN positionIncrement(@, bet.selectionId, -liability)
                        ELSE @,
           !.settled = IF thrown = 0 /\ ~noWallet THEN @ + 1 ELSE @,
           !.totalPaid = IF thrown = 0 /\ ~noWallet THEN @ + payout ELSE @,
           !.errors = IF thrown # 0 \/ noWallet THEN @ \cup {<<"bet", i>>} ELSE @])

RECURSIVE settleBets(_, _, _, _)
settleBets(D, ids, result, fault) ==
    IF ids = {} THEN D
    ELSE With(CHOOSE x \in ids : \A y \in ids : x <= y, LAMBDA i :
         With(settleBet(D, i, result, fault), LAMBDA D1 :
         With(ids \ {i}, LAMBDA rest :
             settleBets(D1, rest, result, fault))))

\* one iteration of the loop over Object.entries(results)
settleSelection(D, selectionId, result, fault) ==
    With(activeBetsOn(D.bets, selectionId), LAMBDA ids :
    With(settleBets(D, ids, result, fault), LAMBDA D1 :
        [D1 EXCEPT !.position = [@ EXCEPT ![selectionId] = 0]]))

RECURSIVE settleSelections(_, _, _, _)
settleSelections(D, k, results, fault) ==
    IF k > Len(SelOrder) THEN D
    ELSE With(IF SelOrder[k] \in DOMAIN results
              THEN settleSelection(D, SelOrder[k], results[SelOrder[k]], fault)
              ELSE D,
              LAMBDA D1 : settleSelections(D1, k + 1, results, fault))

\* parlayLeg.updateMany({ where: { selectionId, result: "PENDING" } }) for
\* every entry of results
settleLegs(parlayRows, results) ==
    [p \in DOMAIN parlayRows |->
        LET legs == parlayRows[p].legs IN
        [parlayRows[p] EXCEPT !.legs =
            [l \in DOMAIN legs |->
                IF legs[l].result = "PENDING" /\ legs[l].selectionId \in DOMAIN results
                THEN [legs[l] EXCEPT !.result = results[legs[l].selectionId]]
                ELSE legs[l]]]]

\* parlay.findMany: PENDING or ACTIVE parlays with a leg on a resolved selection
affectedParlays(parlayRows, results) ==
    {p \in DOMAIN parlayRows :
        /\ parlayRows[p].status \in {"PENDING", "ACTIVE"}
        /\ \E l \in DOMAIN parlayRows[p].legs :
               parlayRows[p].legs[l].selectionId \in DOMAIN results}

parlayLegDecimal(acceptedOdds) ==
    IF acceptedOdds >= 0
    THEN FAdd(FInt(1), Frac(acceptedOdds, 100))
    ELSE FAdd(FInt(1), Frac(100, Abs(acceptedOdds)))

RECURSIVE wonLegsDecimal(_, _)
wonLegsDecimal(legs, n) ==
    IF n = 0 THEN FInt(1)
    ELSE IF legs[n].result = "WON"
    THEN FMul(wonLegsDecimal(legs, n - 1), parlayLegDecimal(legs[n].acceptedOdds))
    ELSE wonLegsDecimal(legs, n - 1)

\* a settlement that pays the payout booked at placement
parlayPayout_booked(parlay) == parlay.potentialPayout

parlayPayout(parlay) ==
    MathRound(FMul(FInt(parlay.stake), wonLegsDecimal(parlay.legs, Len(parlay.legs))))

settleParlay(D, p, fault) ==
    With(parlayPayout(D.parlays[p]), LAMBDA won :
    LET parlay == D.parlays[p]
        legs == parlay.legs
        stake == parlay.stake
        hasLost == \E l \in DOMAIN legs : legs[l].result = "LOST"
        hasWon == \E l \in DOMAIN legs : legs[l].result = "WON"
        status == IF hasLost THEN "LOST" ELSE IF hasWon THEN "WON" ELSE "VOIDED"
        credit == IF hasLost THEN 0 ELSE IF hasWon THEN won ELSE stake
        at == IF fault.kind = "parlay" /\ fault.id = p THEN fault.at ELSE 0
        withWallet == hasWallet(D, parlay.userId)
        thrown == IF at = P_TRANSACTION /\ hasLost THEN 0
                  ELSE IF at > P_PARLAY /\ ~withWallet THEN 0 ELSE at
        done(w) == thrown = 0 \/ w < thrown
    IN  IF D.threw \/ \E l \in DOMAIN legs : legs[l].result = "PENDING" THEN D
        ELSE [D EXCEPT
           !.parlays = IF done(P_PARLAY)
                       THEN [@ EXCEPT ![p] =
                               [@ EXCEPT !.status = status,
                                         !.potentialPayout =
                                             IF status = "WON" THEN credit ELSE @]]
                       ELSE @,
           !.wallet = IF done(P_WALLET) /\ withWallet
                      THEN [@ EXCEPT ![parlay.userId] =
                              [balance |-> @.balance + credit,
                               lockedBalance |-> @.lockedBalance - stake]]
                      ELSE @,
           !.transactions = IF done(P_TRANSACTION) /\ withWallet /\ ~hasLost
                            THEN @ (+) Tx(parlay.userId,
                                          IF hasWon THEN "BET_PAYOUT"
                                                    ELSE "BET_REFUND",
                                          credit)
                            ELSE @,
           !.totalPaid = IF thrown = 0 /\ withWallet /\ status = "WON"
                         THEN @ + credit ELSE @,
           !.threw = thrown # 0])

RECURSIVE settleParlays(_, _, _)
settleParlays(D, ids, fault) ==
    IF ids = {} THEN D
    ELSE With(CHOOSE x \in ids : \A y \in ids : x <= y, LAMBDA p :
         With(settleParlay(D, p, fault), LAMBDA D1 :
         With(ids \ {p}, LAMBDA rest :
             settleParlays(D1, rest, fault))))

\* the rows settleEvent reads and writes, with an empty summary
Db ==
    [eventStatus |-> eventStatus, marketStatus |-> marketStatus,
     wallet |-> wallet, bets |-> bets, settlements |-> settlements,
     transactions |-> transactions, exposureCache |-> exposureCache,
     position |-> position, parlays |-> parlays,
     settled |-> 0, totalPaid |-> 0, errors |-> {}, threw |-> FALSE]

settleRun(D, eventId, results, fault) ==
    With([D EXCEPT
            !.eventStatus = [@ EXCEPT ![eventId] = "SETTLED"],
            !.marketStatus = [m \in Markets |->
                                IF eventOf[m] = eventId THEN "CLOSED" ELSE @[m]]],
         LAMBDA D0 :
    With(settleSelections(D0, 1, results, fault), LAMBDA D1 :
    With([D1 EXCEPT !.parlays = settleLegs(@, results)], LAMBDA D2 :
    With(affectedParlays(D2.parlays, results), LAMBDA ids :
        settleParlays(D2, ids, fault)))))

settleEvent(eventId, results, fault) ==
    \E D0 \in {Db} : \E D \in {settleRun(D0, eventId, results, fault)} :
    /\ eventStatus' = D.eventStatus
    /\ marketStatus' = D.marketStatus
    /\ wallet' = D.wallet
    /\ bets' = D.bets
    /\ settlements' = D.settlements
    /\ transactions' = D.transactions
    /\ exposureCache' = D.exposureCache
    /\ position' = D.position
    /\ parlays' = D.parlays
    /\ last' = [op |-> "settle", threw |-> D.threw, errors |-> D.errors]
    /\ UNCHANGED <<betRequests, dailyStake, redisUp, now>>

-----------------------------------------------------------------------------
(* Inputs of the handlers *)

\* <<selectionId, requestedOdds>>: accepted, countered and rejected against
\* consensus, and a request on the unpriced selection
BetInputs == { <<"s1", -200>>, <<"s1", -150>>, <<"s1", 200>>,
               <<"s2", -200>>, <<"s3", -150>> }
Stakes == {5000}
ParlayStakes == {4000}

Leg(selectionId, requestedOdds) ==
    [selectionId |-> selectionId, requestedOdds |-> requestedOdds]

ParlayLegInputs ==
    { <<Leg("s1", -200), Leg("s2", -150)>>,
      <<Leg("s1", -150), Leg("s3", -150)>>,
      <<Leg("s1", 200), Leg("s2", -150)>> }

Outcomes == {"WON", "LOST", "VOID"}

selectionsOf(eventId) == {sel \in Selections : eventOf[marketOf[sel]] = eventId}

\* outcome maps: any map over a subset of the event's own selections
SettleResults(eventId) == UNION {[dom -> Outcomes] : dom \in SUBSET selectionsOf(eventId)}

\* outcome maps that resolve every selection of the event
CompleteResults(eventId) == [selectionsOf(eventId) -> Outcomes]

-----------------------------------------------------------------------------
(* The handlers as atomic operations: each runs to completion alone *)

\* bet requests and parlays created so far
wagerCount == Len(betRequests) + Len(parlays)

Deposit ==
    \E userId \in Users, amount \in DepositAmounts :
        /\ TxCount("DEPOSIT") < MaxDeposits
        /\ DepositWrite(userId, amount)
        /\ UNCHANGED inflight

Withdraw ==
    \E userId \in Users, amount \in WithdrawAmounts :
        /\ TxCount("WITHDRAWAL") < MaxWithdrawals
        /\ WithdrawRead(userId, amount)
        /\ WithdrawWrite(userId, amount)
        /\ UNCHANGED inflight

BetRequest ==
    \E userId \in Users, input \in BetInputs, stake \in Stakes :
        \E r \in {BetRequestRead(userId, input[1], input[2], stake)} :
        /\ wagerCount < MaxWagers
        /\ r.ok
        /\ BetRequestWrite(userId, input[1], input[2], stake, r.result)
        /\ UNCHANGED inflight

BetConfirm ==
    \E userId \in Users, requestId \in DOMAIN betRequests :
        /\ BetConfirmFound(userId, requestId)
        /\ IF isExpired(betRequests[requestId].expiresAt, now)
           THEN BetConfirmExpire(userId, requestId)
           ELSE /\ BetConfirmRead(userId, requestId)
                /\ BetConfirmWrite(userId, requestId)
        /\ UNCHANGED inflight

ParlayRequest ==
    \E userId \in Users, legs \in ParlayLegInputs, stake \in ParlayStakes :
        \E r \in {ParlayRequestRead(userId, legs, stake)} :
        /\ wagerCount < MaxWagers
        /\ Len(parlays) < MaxParlays
        /\ r.ok
        /\ ParlayRequestWrite(userId, legs, stake, r.result)
        /\ UNCHANGED inflight

ParlayConfirm ==
    \E userId \in Users, parlayId \in DOMAIN parlays :
        /\ ParlayConfirmFound(userId, parlayId)
        /\ IF parlayExpired(parlays[parlayId].placedAt, now)
           THEN ParlayConfirmExpire(userId, parlayId)
           ELSE /\ ParlayConfirmRead(userId, parlayId)
                /\ ParlayConfirmWrite(userId, parlayId)
        /\ UNCHANGED inflight

SettleEvent ==
    \E eventId \in Events :
        \E results \in SettleResults(eventId) :
            /\ settleEvent(eventId, results, NoFault)
            /\ UNCHANGED inflight

\* The clock is read only to expire counter offers, so it is advanced only
\* while some outstanding offer has not expired yet: past that point no
\* handler can tell one time from a later one.
offerOutstanding ==
    \/ \E r \in DOMAIN betRequests :
           /\ betRequests[r].status = "COUNTERED"
           /\ ~isExpired(betRequests[r].expiresAt, now)
    \/ \E p \in DOMAIN parlays :
           /\ parlays[p].status = "PENDING"
           /\ ~parlayExpired(parlays[p].placedAt, now)

Tick ==
    /\ now < MaxTime
    /\ offerOutstanding
    /\ now' = now + 1
    /\ last' = Quiet
    /\ UNCHANGED <<wallet, betRequests, bets, parlays, settlements, transactions,
                   exposureCache, position, dailyStake, redisUp, marketStatus,
                   eventStatus, inflight>>

\* the Redis server becomes unreachable, or reachable again with its keys
RedisToggle ==
    /\ redisUp' = ~redisUp
    /\ last' = Quiet
    /\ UNCHANGED <<wallet, betRequests, bets, parlays, settlements, transactions,
                   exposureCache, position, dailyStake, marketStatus,
                   eventStatus, now, inflight>>

Next ==
    \/ Deposit
    \/ Withdraw
    \/ BetRequest
    \/ BetConfirm
    \/ ParlayRequest
    \/ ParlayConfirm
    \/ SettleEvent
    \/ Tick

Spec == Init /\ [][Next]_vars

-----------------------------------------------------------------------------
(* Sums over rows *)

RECURSIVE SumStakes(_, _)
SumStakes(rows, ids) ==
    IF ids = {} THEN 0
    ELSE LET i == CHOOSE x \in ids : TRUE
         IN  rows[i].stake + SumStakes(rows, ids \ {i})

activeBetsOf(userId) ==
    {i \in DOMAIN bets : bets[i].userId = userId /\ bets[i].status = "ACTIVE"}

activeParlaysOf(userId) ==
    {p \in DOMAIN parlays :
        parlays[p].userId = userId /\ parlays[p].status = "ACTIVE"}

-----------------------------------------------------------------------------
(* C1 and C2: the wallet invariants *)

\* C1: after any sequence of completed deposit, withdraw, bet, parlay and
\* settlement operations every wallet has 0 <= lockedBalance <= balance.
C1_LockedWithinBalance ==
    \A u \in Users :
        /\ 0 <= wallet[u].lockedBalance
        /\ wallet[u].lockedBalance <= wallet[u].balance

\* C2: with no operation in progress, lockedBalance is the sum of the stakes
\* of the owner's ACTIVE bets and ACTIVE parlays.
C2_LockedIsActiveStake ==
    \A u \in Users :
        wallet[u].lockedBalance =
            SumStakes(bets, activeBetsOf(u)) + SumStakes(parlays, activeParlaysOf(u))

-----------------------------------------------------------------------------
(* C3: recorded exposure against the ACTIVE single bets *)

RECURSIVE SumLiability(_, _)
SumLiability(rows, ids) ==
    IF ids = {} THEN 0
    ELSE LET i == CHOOSE x \in ids : TRUE
         IN  (rows[i].potentialPayout - rows[i].stake)
                 + SumLiability(rows, ids \ {i})

\* The platform with cache outages: single bets confirmed within their
\* window, settlement, and the cache becoming unreachable and reachable again.
NextDegraded ==
    \/ Deposit
    \/ BetRequest
    \/ BetConfirm
    \/ SettleEvent
    \/ RedisToggle

SpecDegraded == Init /\ [][NextDegraded]_vars

\* C3: between operations, the value getCurrentExposure returns for a
\* selection is the sum of (potentialPayout - stake) over the ACTIVE single
\* bets on that selection.
C3_ExposureIsActiveLiability ==
    \A sel \in Selections :
        getCurrentExposure(sel) = SumLiability(bets, activeBetsOn(bets, sel))

-----------------------------------------------------------------------------
(* C4: what settlement does to the wallet of a single bet's owner *)

\* bets of userId that this step moves out of ACTIVE
resolvedBets(userId) ==
    {i \in DOMAIN bets :
        /\ bets[i].userId = userId
        /\ bets[i].status = "ACTIVE"
        /\ bets'[i].status # "ACTIVE"}

\* the outcome this step recorded for bet i
recordedOutcome(i) ==
    LET new == {st \in settlements' \ settlements : st.betId = i}
    IN  IF new = {} THEN "NONE" ELSE (CHOOSE st \in new : TRUE).result

RECURSIVE SumCredit(_)
SumCredit(ids) ==
    IF ids = {} THEN 0
    ELSE LET i == CHOOSE x \in ids : TRUE
             outcome == recordedOutcome(i)
             credit == CASE outcome = "WON" -> calcPayout(bets[i].stake, bets[i].odds)
                         [] outcome = "VOID" -> bets[i].stake
                         [] OTHER -> 0
         IN  credit + SumCredit(ids \ {i})

parlayMoved(userId) ==
    \E p \in DOMAIN parlays :
        parlays[p].userId = userId /\ parlays'[p].status # parlays[p].status

C4_Step ==
    \A u \in Users :
        (resolvedBets(u) # {} /\ ~parlayMoved(u)) =>
            /\ \A i \in resolvedBets(u) :
                   \/ recordedOutcome(i) = "WON" /\ bets'[i].status = "WON"
                   \/ recordedOutcome(i) = "LOST" /\ bets'[i].status = "LOST"
                   \/ recordedOutcome(i) = "VOID" /\ bets'[i].status = "VOIDED"
            /\ wallet'[u].balance = wallet[u].balance + SumCredit(resolvedBets(u))
            /\ wallet'[u].lockedBalance =
                   wallet[u].lockedBalance - SumStakes(bets, resolvedBets(u))

\* C4: when settleEvent resolves an ACTIVE single bet with stake s and odds o,
\* WON adds calcPayout(s, o) to the balance, VOID adds s, LOST adds nothing;
\* each releases s from lockedBalance, and the bet becomes WON, VOIDED, LOST.
C4_SettlementEffect == [][C4_Step]_vars

\* two bets have been settled, one WON and one not
C4_Witness ==
    /\ last.op = "settle"
    /\ \E a, b \in settlements :
          /\ a.result = "WON" /\ a.payout = calcPayout(bets[a.betId].stake, bets[a.betId].odds)
          /\ b.result \in {"LOST", "VOID"}
          /\ bets[a.betId].status = "WON"
          /\ bets[b.betId].status \in {"LOST", "VOIDED"}

-----------------------------------------------------------------------------
(* C5: the balance over the whole life of a bet *)

RECURSIVE SumAmounts(_, _)
SumAmounts(B, S) ==
    IF S = {} THEN 0
    ELSE LET t == CHOOSE x \in S : TRUE
         IN  t.amount * CopiesIn(t, B) + SumAmounts(B, S \ {t})

TxTotal(userId, type) ==
    SumAmounts(transactions,
               {t \in BagToSet(transactions) :
                    t.walletId = userId /\ t.type = type})

betsOf(userId) == {i \in DOMAIN bets : bets[i].userId = userId}

\* C5: once every bet of a wallet has been settled LOST or VOID (and it has
\* no parlays), the balance is what was deposited less what was withdrawn,
\* lower by exactly the stake of each LOST bet and unchanged by each VOID bet.
C5_BalanceOverBetLife ==
    \A u \in Users :
        ( /\ betsOf(u) # {}
          /\ \A i \in betsOf(u) : bets[i].status \in {"LOST", "VOIDED"}
          /\ \A p \in DOMAIN parlays : parlays[p].userId # u )
        => wallet[u].balance =
               TxTotal(u, "DEPOSIT") - TxTotal(u, "WITHDRAWAL")
                 - SumStakes(bets, {i \in betsOf(u) : bets[i].status = "LOST"})

-----------------------------------------------------------------------------
(* C6: settling twice *)

\* the rows a completed run leaves, handed to a new run
secondCall(D, eventId, results) ==
    settleRun([D EXCEPT !.settled = 0, !.totalPaid = 0, !.errors = {},
                        !.threw = FALSE],
              eventId, results, NoFault)

\* C6: a second settleEvent with the same event and outcome map changes no
\* wallet, bet, parlay or exposure value, creates no Settlement and no
\* Transaction, and returns settled = 0 and totalPaid = 0.
C6_SettleIdempotent ==
    \A eventId \in Events :
        \A results \in SettleResults(eventId) :
            \A D1 \in {settleRun(Db, eventId, results, NoFault)} :
                \A D2 \in {secondCall(D1, eventId, results)} :
                    /\ D2.wallet = D1.wallet
                    /\ D2.bets = D1.bets
                    /\ D2.parlays = D1.parlays
                    /\ D2.exposureCache = D1.exposureCache
                    /\ D2.position = D1.position
                    /\ D2.settlements = D1.settlements
                    /\ D2.transactions = D1.transactions
                    /\ D2.eventStatus = D1.eventStatus
                    /\ D2.marketStatus = D1.marketStatus
                    /\ D2.settled = 0
                    /\ D2.totalPaid = 0

\* a run has completed that paid a single bet and resolved a parlay
C6_Witness ==
    /\ last.op = "settle"
    /\ \E st \in settlements : st.payout > 0
    /\ \E p \in DOMAIN parlays : parlays[p].status \in {"WON", "LOST"}

-----------------------------------------------------------------------------
(* C8: confirming after the counter offer has expired *)

lockedUnchanged ==
    \A u \in Users : wallet'[u].lockedBalance = wallet[u].lockedBalance

exposureUnchanged == exposureCache' = exposureCache /\ position' = position

\* a bets/confirm call on a countered request whose two minutes have passed
lateBetConfirm(r) ==
    /\ last'.op = "betConfirm"
    /\ last'.requestId = r
    /\ betRequests[r].status = "COUNTERED"
    /\ now > betRequests[r].expiresAt

\* a bets/parlay/confirm call on a countered parlay placed over two minutes ago
lateParlayConfirm(p) ==
    /\ last'.op = "parlayConfirm"
    /\ last'.parlayId = p
    /\ parlays[p].status = "PENDING"
    /\ now > parlays[p].placedAt + 2

C8_Step ==
    /\ \A r \in DOMAIN betRequests :
           /\ lateBetConfirm(r) =>
                  /\ betRequests'[r].status = "EXPIRED"
                  /\ bets' = bets
                  /\ lockedUnchanged
                  /\ exposureUnchanged
                  /\ dailyStake' = dailyStake
           /\ betRequests[r].status = "EXPIRED" =>
                  /\ betRequests'[r].status = "EXPIRED"
                  /\ \A i \in DOMAIN bets' : bets'[i].betRequestId = r => i \in DOMAIN bets
    /\ \A p \in DOMAIN parlays :
           /\ lateParlayConfirm(p) =>
                  /\ parlays'[p].status = "VOIDED"
                  /\ bets' = bets
                  /\ lockedUnchanged
                  /\ exposureUnchanged
                  /\ dailyStake' = dailyStake
           /\ parlays[p].status = "VOIDED" => parlays'[p].status = "VOIDED"

\* C8: a confirmation made after the 2-minute expiry is rejected: the request
\* becomes EXPIRED (the parlay VOIDED) and stays so, no Bet is created, and
\* lockedBalance, exposure and daily stake are left as they were.
C8_LateConfirmRejected == [][C8_Step]_vars

\* a late parlay confirmation has just been turned down, and a late bet
\* confirmation before it
C8_Witness ==
    /\ last.op = "parlayConfirm"
    /\ last.outcome = "expired"
    /\ parlays[last.parlayId].status = "VOIDED"
    /\ now > parlays[last.parlayId].placedAt + 2
    /\ \E r \in DOMAIN betRequests :
          betRequests[r].status = "EXPIRED" /\ now > betRequests[r].expiresAt

-----------------------------------------------------------------------------
(* C7: a database write that fails during a settlement run *)

\* the one write of the run that fails: a write made for a bet the run picks
\* up, or for a parlay it picks up
Faults(results) ==
    {NoFault}
      \cup {[kind |-> "bet", id |-> i, at |-> w] :
                i \in UNION {activeBetsOn(bets, sel) : sel \in DOMAIN results},
                w \in W_SETTLEMENT..W_POSITION}
      \cup {[kind |-> "parlay", id |-> p, at |-> w] :
                p \in affectedParlays(parlays, results),
                w \in P_PARLAY..P_TRANSACTION}

SettleEventFaulty ==
    \E eventId \in Events :
        \E results \in CompleteResults(eventId) :
            \E fault \in Faults(results) :
                /\ settleEvent(eventId, results, fault)
                /\ UNCHANGED inflight

NextFail ==
    \/ Deposit
    \/ BetRequest
    \/ ParlayRequest
    \/ SettleEventFaulty

SpecFail == Init /\ [][NextFail]_vars

\* C7: when processing one bet or one parlay fails during settleEvent, the
\* run does not throw: it returns its summary.
C7_SettleNeverThrows == last.op = "settle" => ~last.threw

-----------------------------------------------------------------------------
(* C9: the handlers interleaved                                            *)
(* Each handler awaits its reads (wallet, market, pricing) and then awaits *)
(* its writes; another request can be served in between.  A handler that   *)
(* has read and not yet written sits in inflight with what it read.        *)

RemoveAt(seq, k) == SubSeq(seq, 1, k - 1) \o SubSeq(seq, k + 1, Len(seq))

inflightOps(ops) == {k \in DOMAIN inflight : inflight[k].op \in ops}

canBegin == Len(inflight) < MaxInflight

WithdrawBegin ==
    \E userId \in Users, amount \in WithdrawAmounts :
        /\ canBegin
        /\ TxCount("WITHDRAWAL") + Cardinality(inflightOps({"withdraw"}))
               < MaxWithdrawals
        /\ WithdrawRead(userId, amount)
        /\ inflight' = Append(inflight,
               [op |-> "withdraw", userId |-> userId, amount |-> amount])
        /\ UNCHANGED <<wallet, betRequests, bets, parlays, settlements,
                       transactions, exposureCache, position, dailyStake,
                       redisUp, marketStatus, eventStatus, now, last>>

WithdrawCommit ==
    \E k \in inflightOps({"withdraw"}) :
        /\ WithdrawWrite(inflight[k].userId, inflight[k].amount)
        /\ inflight' = RemoveAt(inflight, k)

BetRequestBegin ==
    \E userId \in Users, input \in BetInputs, stake \in Stakes :
        \E r \in {BetRequestRead(userId, input[1], input[2], stake)} :
        /\ canBegin
        /\ wagerCount + Cardinality(inflightOps({"betRequest", "parlayRequest"}))
               < MaxWagers
        /\ r.ok
        /\ inflight' = Append(inflight,
               [op |-> "betRequest", userId |-> userId, selectionId |-> input[1],
                requestedOdds |-> input[2], stake |-> stake, result |-> r.result])
        /\ UNCHANGED <<wallet, betRequests, bets, parlays, settlements,
                       transactions, exposureCache, position, dailyStake,
                       redisUp, marketStatus, eventStatus, now, last>>

BetRequestCommit ==
    \E k \in inflightOps({"betRequest"}) :
        /\ BetRequestWrite(inflight[k].userId, inflight[k].selectionId,
                           inflight[k].requestedOdds, inflight[k].stake,
                           inflight[k].result)
        /\ inflight' = RemoveAt(inflight, k)

BetConfirmBegin ==
    \E userId \in Users, requestId \in DOMAIN betRequests :
        /\ canBegin
        /\ BetConfirmFound(userId, requestId)
        /\ ~isExpired(betRequests[requestId].expiresAt, now)
        /\ BetConfirmRead(userId, requestId)
        /\ inflight' = Append(inflight,
               [op |-> "betConfirm", userId |-> userId, requestId |-> requestId])
        /\ UNCHANGED <<wallet, betRequests, bets, parlays, settlements,
                       transactions, exposureCache, position, dailyStake,
                       redisUp, marketStatus, eventStatus, now, last>>

BetConfirmCommit ==
    \E k \in inflightOps({"betConfirm"}) :
        /\ BetConfirmWrite(inflight[k].userId, inflight[k].requestId)
        /\ inflight' = RemoveAt(inflight, k)

ParlayRequestBegin ==
    \E userId \in Users, legs \in ParlayLegInputs, stake \in ParlayStakes :
        \E r \in {ParlayRequestRead(userId, legs, stake)} :
        /\ canBegin
        /\ wagerCount + Cardinality(inflightOps({"betRequest", "parlayRequest"}))
               < MaxWagers
        /\ Len(parlays) + Cardinality(inflightOps({"parlayRequest"})) < MaxParlays
        /\ r.ok
        /\ inflight' = Append(inflight,
               [op |-> "parlayRequest", userId |-> userId, legs |-> legs,
                stake |-> stake, result |-> r.result])
        /\ UNCHANGED <<wallet, betRequests, bets, parlays, settlements,
                       transactions, exposureCache, position, dailyStake,
                       redisUp, marketStatus, eventStatus, now, last>>

ParlayRequestCommit ==
    \E k \in inflightOps({"parlayRequest"}) :
        /\ ParlayRequestWrite(inflight[k].userId, inflight[k].legs,
                              inflight[k].stake, inflight[k].result)
        /\ inflight' = RemoveAt(inflight, k)

ParlayConfirmBegin ==
    \E userId \in Users, parlayId \in DOMAIN parlays :
        /\ canBegin
        /\ ParlayConfirmFound(userId, parlayId)
        /\ ~parlayExpired(parlays[parlayId].placedAt, now)
        /\ ParlayConfirmRead(userId, parlayId)
        /\ inflight' = Append(inflight,
               [op |-> "parlayConfirm", userId |-> userId, parlayId |-> parlayId])
        /\ UNCHANGED <<wallet, betRequests, bets, parlays, settlements,
                       transactions, exposureCache, position, dailyStake,
                       redisUp, marketStatus, eventStatus, now, last>>

ParlayConfirmCommit ==
    \E k \in inflightOps({"parlayConfirm"}) :
        /\ ParlayConfirmWrite(inflight[k].userId, inflight[k].parlayId)
        /\ inflight' = RemoveAt(inflight, k)

NextConc ==
    \/ Deposit
    \/ WithdrawBegin
    \/ WithdrawCommit
    \/ BetRequestBegin
    \/ BetRequestCommit
    \/ BetConfirmBegin
    \/ BetConfirmCommit
    \/ ParlayRequestBegin
    \/ ParlayRequestCommit
    \/ ParlayConfirmBegin
    \/ ParlayConfirmCommit

SpecConc == Init /\ [][NextConc]_vars

\* C9: however the bet, parlay and withdraw handlers interleave on a wallet,
\* a step that locks a new stake never leaves balance - lockedBalance negative.
C9_AvailableNeverNegative ==
    [][\A u \in Users :
          wallet'[u].lockedBalance > wallet[u].lockedBalance
              => available(wallet'[u]) >= 0]_vars

-----------------------------------------------------------------------------
(* C10: evaluateBetRequest against the exposure cap                        *)
(* The engine is applied to books that many bets have already built up:    *)
(* liability far from, near and at the cap, with the cache key absent or   *)
(* holding the durable value, the cache reachable or not.                  *)

ExposureLevels == {0, 4400000, 4990000}
DailyLevels == {Absent, Cached(2450000)}
PricingOdds == {-200, -150, 200}
PricingStakes == {100000, 600000}

InitPricing ==
    /\ wallet = [u \in Users |-> [balance |-> 0, lockedBalance |-> 0]]
    /\ betRequests = <<>>
    /\ bets = <<>>
    /\ parlays = <<>>
    /\ settlements = {}
    /\ transactions = EmptyBag
    /\ position \in [Selections -> ExposureLevels]
    /\ \E cached \in BOOLEAN :
           exposureCache = [s \in Selections |->
                               IF cached THEN Cached(position[s]) ELSE Absent]
    /\ dailyStake \in [Users -> DailyLevels]
    /\ redisUp \in BOOLEAN
    /\ marketStatus = [m \in Markets |-> "OPEN"]
    /\ eventStatus = [e \in Events |-> "UPCOMING"]
    /\ now = 0
    /\ inflight = <<>>
    /\ last = Quiet

Evaluate ==
    \E userId \in Users, selectionId \in Selections,
       requestedOdds \in PricingOdds, stake \in PricingStakes :
        /\ last' = [op |-> "evaluate", userId |-> userId,
                    selectionId |-> selectionId,
                    requestedOdds |-> requestedOdds, stake |-> stake,
                    result |-> evaluateBetRequest(userId, selectionId,
                                                  requestedOdds, stake)]
        /\ UNCHANGED <<wallet, betRequests, bets, parlays, settlements,
                       transactions, exposureCache, position, dailyStake,
                       redisUp, marketStatus, eventStatus, now, inflight>>

NextPricing == Evaluate

SpecPricing == InitPricing /\ [][NextPricing]_vars

\* the request just evaluated would take the selection's exposure over the cap
overCap ==
    /\ last.op = "evaluate"
    /\ getCurrentExposure(last.selectionId)
         + calcPayout(last.stake, last.requestedOdds) - last.stake
           > MAX_SELECTION_EXPOSURE * 100

-----------------------------------------------------------------------------
(* C11: the quote for a selection without consensus odds *)

\* the request just evaluated is on a selection without consensus odds and
\* passes the single-stake and the daily-stake limit
noConsensusWithinLimits ==
    /\ last.op = "evaluate"
    /\ getConsensusOdds(last.selectionId) = NoOdds
    /\ ~overStakeLimit(last.stake)
    /\ ~overDailyLimit(getDailyStake(last.userId), last.stake)

\* C11: a request on a selection without consensus odds that passes both
\* stake limits is answered COUNTER, and the countered odds are the fallback
\* line -110 itself.
C11_FallbackCounter ==
    noConsensusWithinLimits =>
        /\ last.result.decision = "COUNTER"
        /\ last.result.acceptedOdds = FALLBACK_LINE

-----------------------------------------------------------------------------
(* C12 and C13: the ledger and the engine while the cache comes and goes   *)
(* The exported functions are called directly on a book that holds one     *)
(* accepted bet (deposit 100.00, then s1 @ -200 for 50.00).                *)

\* a command sent to an unreachable Redis server rejects
redisRejects == ~redisUp

\* try { body } catch { handler }: the statement raises only when the body
\* raises and the handler raises too
TryCatch(bodyRaises, handlerRaises) == bodyRaises /\ handlerRaises

\* a wrapper that lets the rejection through (redis.get called bare)
safeGetRaises_bare == redisRejects

safeGetRaises == TryCatch(redisRejects, FALSE)
safeSetRaises == TryCatch(redisRejects, FALSE)
safeIncrByFloatRaises == TryCatch(redisRejects, FALSE)
incrementDailyStakeRaises == TryCatch(redisRejects, FALSE)

\* the odds key is read first; on a miss the row is read and cached again
getConsensusOddsRaises(selectionId) ==
    safeGetRaises \/ (consensus[selectionId] # NoOdds /\ safeSetRaises)

getCurrentExposureRaises == safeGetRaises
getDailyStakeRaises == safeGetRaises

\* the awaits of evaluateBetRequest in program order, up to its return
evaluateBetRequestRaises(userId, selectionId, requestedOdds, stake) ==
    IF overStakeLimit(stake) THEN FALSE
    ELSE IF getDailyStakeRaises THEN TRUE
    ELSE IF overDailyLimit(getDailyStake(userId), stake) THEN FALSE
    ELSE IF getConsensusOddsRaises(selectionId) THEN TRUE
    ELSE IF getConsensusOdds(selectionId) = NoOdds THEN FALSE
    ELSE getCurrentExposureRaises

\* the durable write is assumed to succeed: only the cache is at fault here
incrementExposureRaises == safeIncrByFloatRaises
decrementExposureRaises == safeIncrByFloatRaises

LedgerCeiling == 5002500
LedgerSelections == {"s1"}
LedgerDeltas == {2500000}
OutageStakes == {100000, 600000}

\* the calls are enumerated while both copies of the exposure stay in range
withinLedger(selectionId, delta) ==
    /\ position[selectionId] + delta \in 0..LedgerCeiling
    /\ Abs(exposureCache[selectionId].val + delta) <= LedgerCeiling

InitOutage ==
    /\ wallet = [u \in Users |-> [balance |-> 10000, lockedBalance |-> 5000]]
    /\ betRequests = <<[userId |-> "u1", selectionId |-> "s1",
                        requestedOdds |-> -200, stake |-> 5000,
                        status |-> "CONFIRMED", counteredOdds |-> NoOdds,
                        expiresAt |-> NoExpiry]>>
    /\ bets = <<[betRequestId |-> 1, userId |-> "u1", selectionId |-> "s1",
                 odds |-> -200, stake |-> 5000, potentialPayout |-> 7500,
                 status |-> "ACTIVE"]>>
    /\ parlays = <<>>
    /\ settlements = {}
    /\ transactions = Tx("u1", "DEPOSIT", 10000) (+) Tx("u1", "BET_STAKE", 5000)
    /\ exposureCache = [s \in Selections |->
                            IF s = "s1" THEN Cached(2500) ELSE Absent]
    /\ position = [s \in Selections |-> IF s = "s1" THEN 2500 ELSE 0]
    /\ dailyStake = [u \in Users |-> Cached(5000)]
    /\ redisUp = TRUE
    /\ marketStatus = [m \in Markets |-> "OPEN"]
    /\ eventStatus = [e \in Events |-> "UPCOMING"]
    /\ now = 0
    /\ inflight = <<>>
    /\ last = Quiet

\* the book of InitOutage as the handlers leave it
OutageBookReached ==
    /\ wallet = [u \in Users |-> [balance |-> 10000, lockedBalance |-> 5000]]
    /\ Len(bets) = 1 /\ bets[1].potentialPayout = 7500 /\ bets[1].odds = -200
    /\ Len(betRequests) = 1 /\ betRequests[1].status = "CONFIRMED"
    /\ exposureCache = [s \in Selections |->
                            IF s = "s1" THEN Cached(2500) ELSE Absent]
    /\ position = [s \in Selections |-> IF s = "s1" THEN 2500 ELSE 0]
    /\ dailyStake = [u \in Users |-> Cached(5000)]
    /\ transactions = Tx("u1", "DEPOSIT", 10000) (+) Tx("u1", "BET_STAKE", 5000)

EvaluateCall ==
    \E userId \in Users, selectionId \in Selections,
       requestedOdds \in PricingOdds, stake \in OutageStakes :
        /\ last' = [op |-> "evaluate", userId |-> userId,
                    selectionId |-> selectionId,
                    requestedOdds |-> requestedOdds, stake |-> stake,
                    degraded |-> ~redisUp,
                    raised |-> evaluateBetRequestRaises(userId, selectionId,
                                                        requestedOdds, stake),
                    result |-> evaluateBetRequest(userId, selectionId,
                                                  requestedOdds, stake)]
        /\ UNCHANGED <<wallet, betRequests, bets, parlays, settlements,
                       transactions, exposureCache, position, dailyStake,
                       redisUp, marketStatus, eventStatus, now, inflight>>

IncrementExposureCall ==
    \E selectionId \in LedgerSelections, liability \in LedgerDeltas :
        /\ withinLedger(selectionId, liability)
        /\ exposureCache' =
               incrementExposureCache(exposureCache, selectionId, liability)
        /\ position' = positionIncrement(position, selectionId, liability)
        /\ last' = [op |-> "incrementExposure", selectionId |-> selectionId,
                    liability |-> liability, degraded |-> ~redisUp,
                    raised |-> incrementExposureRaises]
        /\ UNCHANGED <<wallet, betRequests, bets, parlays, settlements,
                       transactions, dailyStake, redisUp, marketStatus,
                       eventStatus, now, inflight>>

DecrementExposureCall ==
    \E selectionId \in LedgerSelections, liability \in LedgerDeltas :
        /\ withinLedger(selectionId, -liability)
        /\ exposureCache' =
               decrementExposureCache(exposureCache, selectionId, liability)
        /\ position' = positionIncrement(position, selectionId, -liability)
        /\ last' = [op |-> "decrementExposure", selectionId |-> selectionId,
                    liability |-> liability, degraded |-> ~redisUp,
                    raised |-> decrementExposureRaises]
        /\ UNCHANGED <<wallet, betRequests, bets, parlays, settlements,
                       transactions, dailyStake, redisUp, marketStatus,
                       eventStatus, now, inflight>>

DailyDeltas == {1200000}

IncrementDailyStakeCall ==
    \E userId \in Users, stake \in DailyDeltas :
        /\ ~overDailyLimit(dailyStake[userId].val, stake)
        /\ dailyStake' = incrementDailyStake(dailyStake, userId, stake)
        /\ last' = [op |-> "incrementDailyStake", userId |-> userId,
                    stake |-> stake, degraded |-> ~redisUp,
                    raised |-> incrementDailyStakeRaises]
        /\ UNCHANGED <<wallet, betRequests, bets, parlays, settlements,
                       transactions, exposureCache, position, redisUp,
                       marketStatus, eventStatus, now, inflight>>

NextOutage ==
    \/ EvaluateCall
    \/ IncrementExposureCall
    \/ DecrementExposureCall
    \/ IncrementDailyStakeCall
    \/ SettleEvent
    \/ RedisToggle

SpecOutage == InitOutage /\ [][NextOutage]_vars

\* the decision that follows from the durable rows alone: the ConsensusOdds
\* row, Position.totalLiability, and no daily stake (it has no durable copy)
durableDecision(selectionId, requestedOdds, stake) ==
    LET projected == position[selectionId]
                         + calcPayout(stake, requestedOdds) - stake
        nearCapacity == 10 * projected > 9 * Cents(MAX_SELECTION_EXPOSURE)
    IN  IF stake > Cents(MAX_BET_STAKE) \/ stake > Cents(MAX_DAILY_STAKE)
        THEN "REJECT"
        ELSE IF consensus[selectionId] = NoOdds THEN "COUNTER"
        ELSE IF projected > Cents(MAX_SELECTION_EXPOSURE) THEN "REJECT"
        ELSE IF FGe(edgeOf(requestedOdds, consensus[selectionId]),
                    EDGE_ACCEPT_THRESHOLD) /\ ~nearCapacity
        THEN "ACCEPT"
        ELSE IF FGe(edgeOf(requestedOdds, consensus[selectionId]),
                    EDGE_COUNTER_THRESHOLD) \/ nearCapacity
        THEN "COUNTER"
        ELSE "REJECT"

C13_Step ==
    last'.op \in {"incrementExposure", "decrementExposure"} =>
        \A s \in Selections :
            position'[s] =
                position[s]
                  + (IF s # last'.selectionId THEN 0
                     ELSE IF last'.op = "incrementExposure"
                     THEN last'.liability ELSE -last'.liability)

C13_DurableWriteExact == [][C13_Step]_vars

\* a ledger call made while the cache was unreachable: the cached exposure
\* is stale, the durable one moved
C13_Witness ==
    /\ last.op \in {"incrementExposure", "decrementExposure"}
    /\ last.degraded
    /\ exposureCache[last.selectionId].val # position[last.selectionId]

-----------------------------------------------------------------------------
(* C14: evaluateParlayRequest applied once to a slip of one to three legs *)

ParlayOdds == {-200, -150, 120, 200}
MaxSlipLegs == 3
SlipStakes == {100000, 600000}

\* every slip of up to MaxSlipLegs legs, duplicates of a selection included
Slips ==
    UNION {[1..n -> {Leg(sel, odds) : sel \in Selections, odds \in ParlayOdds}] :
              n \in 1..MaxSlipLegs}

InitParlayPricing ==
    /\ wallet = [u \in Users |-> [balance |-> 0, lockedBalance |-> 0]]
    /\ betRequests = <<>>
    /\ bets = <<>>
    /\ parlays = <<>>
    /\ settlements = {}
    /\ transactions = EmptyBag
    /\ exposureCache = [s \in Selections |-> Absent]
    /\ position = [s \in Selections |-> 0]
    /\ dailyStake \in [Users -> DailyLevels]
    /\ redisUp \in BOOLEAN
    /\ marketStatus = [m \in Markets |-> "OPEN"]
    /\ eventStatus = [e \in Events |-> "UPCOMING"]
    /\ now = 0
    /\ inflight = <<>>
    /\ last = Quiet

EvaluateParlay ==
    \E userId \in Users, legs \in Slips, stake \in SlipStakes :
        /\ last = Quiet
        /\ last' = [op |-> "evaluateParlay", userId |-> userId, legs |-> legs,
                    stake |-> stake,
                    result |-> evaluateParlayRequest(userId, legs, stake)]
        /\ UNCHANGED <<wallet, betRequests, bets, parlays, settlements,
                       transactions, exposureCache, position, dailyStake,
                       redisUp, marketStatus, eventStatus, now, inflight>>

NextParlayPricing == EvaluateParlay

SpecParlayPricing == InitParlayPricing /\ [][NextParlayPricing]_vars

\* the slip just evaluated passed the checks made before any leg is priced
slipPriced ==
    /\ last.op = "evaluateParlay"
    /\ Len(last.legs) >= MIN_PARLAY_LEGS
    /\ Len(last.legs) <= MAX_PARLAY_LEGS
    /\ ~overStakeLimit(last.stake)
    /\ \A i, j \in DOMAIN last.legs :
           last.legs[i].selectionId = last.legs[j].selectionId => i = j
    /\ ~overDailyLimit(getDailyStake(last.userId), last.stake)

\* the legs of the slip just evaluated that price to the given decision
legsPricedTo(decision) ==
    {i \in DOMAIN last.legs : priceParlayLeg(last.legs[i]).decision = decision}

\* C14: for a slip whose legs are priced, if any leg prices to REJECT the
\* overall decision is REJECT with that leg's reason and combinedOdds and
\* potentialPayout 0; otherwise it is COUNTER if some leg was countered and
\* ACCEPT if every leg was accepted.
C14_ParlayDecision ==
    slipPriced =>
        IF legsPricedTo("REJECT") # {}
        THEN /\ last.result.decision = "REJECT"
             /\ \E i \in legsPricedTo("REJECT") :
                    last.result.reason = priceParlayLeg(last.legs[i]).reason
             /\ last.result.combinedOdds = 0
             /\ last.result.potentialPayout = 0
        ELSE IF legsPricedTo("COUNTER") # {}
        THEN last.result.decision = "COUNTER"
        ELSE /\ legsPricedTo("ACCEPT") = DOMAIN last.legs
             /\ last.result.decision = "ACCEPT"

\* a three-leg slip with an accepted, a countered and a rejected leg
C14_Witness ==
    /\ slipPriced
    /\ legsPricedTo("ACCEPT") # {}
    /\ legsPricedTo("COUNTER") # {}
    /\ legsPricedTo("REJECT") # {}
    /\ last.result.decision = "REJECT"

-----------------------------------------------------------------------------
(* C15: what a settlement run does to an ACTIVE parlay *)

\* ACTIVE parlays of the user that this step leaves without a PENDING leg
finishedParlays(userId) ==
    {p \in DOMAIN parlays :
        /\ parlays[p].userId = userId
        /\ parlays[p].status = "ACTIVE"
        /\ \A l \in DOMAIN parlays'[p].legs : parlays'[p].legs[l].result # "PENDING"}

\* ACTIVE parlays of the user that still have a PENDING leg after this step
openParlays(userId) ==
    {p \in DOMAIN parlays :
        /\ parlays[p].userId = userId
        /\ parlays[p].status = "ACTIVE"
        /\ \E l \in DOMAIN parlays'[p].legs : parlays'[p].legs[l].result = "PENDING"}

legsWith(p, result) ==
    {l \in DOMAIN parlays'[p].legs : parlays'[p].legs[l].result = result}

RECURSIVE decimalProduct(_, _)
decimalProduct(legs, ls) ==
    IF ls = {} THEN FInt(1)
    ELSE LET l == CHOOSE x \in ls : TRUE
         IN  FMul(americanToDecimal(legs[l].acceptedOdds),
                  decimalProduct(legs, ls \ {l}))

\* what the claim credits for parlay p: nothing with a LOST leg, stake x the
\* decimal odds of the WON legs with a WON leg, the stake with VOID legs only
parlayCredit(p) ==
    IF legsWith(p, "LOST") # {} THEN 0
    ELSE IF legsWith(p, "WON") # {}
    THEN MathRound(FMul(FInt(parlays[p].stake),
                        decimalProduct(parlays'[p].legs, legsWith(p, "WON"))))
    ELSE parlays[p].stake

parlayOutcome(p) ==
    IF legsWith(p, "LOST") # {} THEN "LOST"
    ELSE IF legsWith(p, "WON") # {} THEN "WON" ELSE "VOIDED"

RECURSIVE SumParlayCredit(_)
SumParlayCredit(ps) ==
    IF ps = {} THEN 0
    ELSE LET p == CHOOSE x \in ps : TRUE
         IN  parlayCredit(p) + SumParlayCredit(ps \ {p})

\* a parlay of the user that was not ACTIVE changes status in this step
idleParlayMoved(userId) ==
    \E p \in DOMAIN parlays :
        /\ parlays[p].userId = userId
        /\ parlays[p].status # "ACTIVE"
        /\ parlays'[p].status # parlays[p].status

C15_Step ==
    last'.op = "settle" =>
        \A u \in Users :
            /\ \A p \in finishedParlays(u) : parlays'[p].status = parlayOutcome(p)
            /\ \A p \in openParlays(u) :
                   /\ parlays'[p].status = "ACTIVE"
                   /\ parlays'[p].potentialPayout = parlays[p].potentialPayout
            /\ (resolvedBets(u) = {} /\ ~idleParlayMoved(u)) =>
                   /\ wallet'[u].balance =
                          wallet[u].balance + SumParlayCredit(finishedParlays(u))
                   /\ wallet'[u].lockedBalance =
                          wallet[u].lockedBalance
                              - SumStakes(parlays, finishedParlays(u))

\* C15: a settlement run that leaves an ACTIVE parlay without a PENDING leg
\* makes it LOST (balance unchanged), WON (balance + stake x the decimal odds
\* of the WON legs, to the cent) or VOIDED (balance + stake), releasing the
\* stake from lockedBalance each time; a parlay that still has a PENDING leg
\* keeps its status and payout and moves no money.
C15_ParlaySettlement == [][C15_Step]_vars

\* a confirmed parlay was settled WON with one leg voided: it paid the stake
\* at the odds of the other leg, not the payout booked at placement
C15_Witness ==
    /\ last.op = "settle"
    /\ \E p \in DOMAIN parlays :
          /\ parlays[p].status = "WON"
          /\ \E l \in DOMAIN parlays[p].legs : parlays[p].legs[l].result = "VOID"
          /\ BagIn([walletId |-> parlays[p].userId, type |-> "BET_STAKE",
                    amount |-> parlays[p].stake], transactions)
          /\ BagIn([walletId |-> parlays[p].userId, type |-> "BET_PAYOUT",
                    amount |-> parlays[p].potentialPayout], transactions)
          /\ parlays[p].potentialPayout # parlays[p].stake

-----------------------------------------------------------------------------
(* C16: parlay legs and the outcome maps the admin route passes on         *)
(* admin/settle hands the posted map to settleEvent as it is: its keys are  *)
(* any selection ids, of the event's own markets or not.                    *)

\* posted outcome maps: one selection of any event
PostedResults == UNION {[{sel} -> Outcomes] : sel \in Selections}

SettleEventPosted ==
    \E eventId \in Events :
        \E results \in PostedResults :
            /\ settleEvent(eventId, results, NoFault)
            /\ UNCHANGED inflight

NextPosted ==
    \/ Deposit
    \/ BetRequest
    \/ ParlayRequest
    \/ SettleEventPosted

SpecPosted == Init /\ [][NextPosted]_vars

\* some outcome map has included the selection: a Settlement row exists for
\* a bet on it, which only a run over a map with that selection writes
settledSelection(selectionId) ==
    \E st \in settlements : bets[st.betId].selectionId = selectionId

\* C16 (a PENDING leg's selection has been in no outcome map yet): no parlay
\* leg is PENDING on a selection for which an outcome map has already
\* produced Settlement rows.
C16_PendingLegUnsettled ==
    \A p \in DOMAIN parlays :
        \A l \in DOMAIN parlays[p].legs :
            parlays[p].legs[l].result = "PENDING" =>
                ~settledSelection(parlays[p].legs[l].selectionId)

-----------------------------------------------------------------------------
(* auto-settle: runAutoSettle                                              *)

\* Event rows: e1 was synced from the odds feed, e2 was seeded by hand.
Sports == {"basketball_nba", "icehockey_nhl"}
sportOf == [e \in Events |->
               IF e = "e1" THEN "basketball_nba" ELSE "icehockey_nhl"]
EventOrder == <<"e1", "e2">>
NoExternalId == ""
externalId == [e \in Events |-> IF e = "e1" THEN "x1" ELSE NoExternalId]
homeTeam == [e \in Events |->
                IF e = "e1" THEN "Sacramento Kings" ELSE "New York Rangers"]
awayTeam == [e \in Events |->
                IF e = "e1" THEN "Golden State Warriors" ELSE "Pittsburgh Penguins"]

\* m1 is e1's moneyline (home s1, away s2); m2 is a spread market of e2
\* whose only selection has no line yet.
marketType == [m \in Markets |-> IF m = "m1" THEN "MONEYLINE" ELSE "SPREAD"]
selName == [s \in Selections |->
               CASE s = "s1" -> homeTeam["e1"]
                 [] s = "s2" -> awayTeam["e1"]
                 [] OTHER -> homeTeam["e2"]]
NoLine == [has |-> FALSE, twice |-> 0]
\* a spread line, kept as twice its value (lines are multiples of 0.5)
selLine == [s \in Selections |-> NoLine]

\* s.toLowerCase().trim() over the names that occur
norm(s) ==
    CASE s \in {"Sacramento Kings", " sacramento kings"} -> "sacramento kings"
      [] s = "Golden State Warriors" -> "golden state warriors"
      [] s = "Los Angeles Lakers" -> "los angeles lakers"
      [] s = "New York Rangers" -> "new york rangers"
      [] s = "Pittsburgh Penguins" -> "pittsburgh penguins"
      [] OTHER -> s

NaN == [nan |-> TRUE, val |-> 0]
Num(v) == [nan |-> FALSE, val |-> v]

\* parseInt(s, 10) over the score strings that occur
parseInt(s) ==
    CASE s = "110" -> Num(110)
      [] s = "102" -> Num(102)
      [] s = "100" -> Num(100)
      [] s = "98 OT" -> Num(98)
      [] OTHER -> NaN

matchScore(score, event) ==
    IF externalId[event] # NoExternalId /\ externalId[event] = score.id THEN TRUE
    ELSE /\ norm(score.home_team) = norm(homeTeam[event])
         /\ norm(score.away_team) = norm(awayTeam[event])

NoResult == "NONE"

\* the entry buildResults writes for one selection, if any
selectionResult(sel, home, away, homeScore, awayScore) ==
    LET winner == IF homeScore > awayScore THEN home
                  ELSE IF awayScore > homeScore THEN away ELSE ""
    IN  IF marketType[marketOf[sel]] = "MONEYLINE"
        THEN IF winner = "" THEN "VOID"
             ELSE IF selName[sel] = winner THEN "WON" ELSE "LOST"
        ELSE IF marketType[marketOf[sel]] = "SPREAD"
        THEN IF ~selLine[sel].has THEN NoResult
             ELSE LET isHome == norm(selName[sel]) = norm(home)
                      teamScore == IF isHome THEN homeScore ELSE awayScore
                      oppScore == IF isHome THEN awayScore ELSE homeScore
                      adjusted2 == 2 * teamScore + selLine[sel].twice
                  IN  IF adjusted2 > 2 * oppScore THEN "WON"
                      ELSE IF adjusted2 < 2 * oppScore THEN "LOST" ELSE "VOID"
        ELSE NoResult

buildResults(home, away, homeScore, awayScore, markets) ==
    LET sels == {s \in Selections :
                    /\ marketOf[s] \in markets
                    /\ selectionResult(s, home, away, homeScore, awayScore)
                           # NoResult}
    IN  [s \in sels |-> selectionResult(s, home, away, homeScore, awayScore)]

\* Array.prototype.find: the index of the first element with P, or 0
find(seq, P(_)) ==
    LET hits == {k \in DOMAIN seq : P(seq[k])}
    IN  IF hits = {} THEN 0 ELSE CHOOSE k \in hits : \A j \in hits : k <= j

Skip(reason) ==
    [call |-> FALSE, reason |-> reason, homeScore |-> 0, awayScore |-> 0,
     results |-> <<>>]

\* a pass that settles on the score record whether or not it is completed
resolveEvent_anyStatus(event, scores) ==
    LET k == find(scores, LAMBDA s : matchScore(s, event))
    IN  IF k = 0 THEN Skip("no score data found")
        ELSE IF scores[k].scores.isNull \/ Len(scores[k].scores.list) < 2
        THEN Skip("score data incomplete")
        ELSE LET list == scores[k].scores.list
                 h == find(list, LAMBDA s : norm(s.name) = norm(homeTeam[event]))
                 a == find(list, LAMBDA s : norm(s.name) = norm(awayTeam[event]))
             IN  IF h = 0 \/ a = 0 \/ parseInt(list[h].score).nan
                             \/ parseInt(list[a].score).nan
                 THEN Skip("invalid score values")
                 ELSE [call |-> TRUE, reason |-> "",
                       homeScore |-> parseInt(list[h].score).val,
                       awayScore |-> parseInt(list[a].score).val,
                       results |-> buildResults(homeTeam[event], awayTeam[event],
                                       parseInt(list[h].score).val,
                                       parseInt(list[a].score).val,
                                       {m \in Markets : eventOf[m] = event})]

\* the body of the loop over a sport's events, up to the settleEvent call
resolveEvent(event, scores) ==
    LET k == find(scores, LAMBDA s : matchScore(s, event))
    IN  IF k = 0 THEN Skip("no score data found")
        ELSE IF ~scores[k].completed THEN Skip("game not yet completed")
        ELSE IF scores[k].scores.isNull \/ Len(scores[k].scores.list) < 2
        THEN Skip("score data incomplete")
        ELSE LET list == scores[k].scores.list
                 h == find(list, LAMBDA s : norm(s.name) = norm(homeTeam[event]))
                 a == find(list, LAMBDA s : norm(s.name) = norm(awayTeam[event]))
             IN  IF h = 0 \/ a = 0
                 THEN Skip("could not match team names in score data")
                 ELSE LET homeScore == parseInt(list[h].score)
                          awayScore == parseInt(list[a].score)
                      IN  IF homeScore.nan \/ awayScore.nan
                          THEN Skip("invalid score values")
                          ELSE LET results ==
                                     buildResults(homeTeam[event], awayTeam[event],
                                         homeScore.val, awayScore.val,
                                         {m \in Markets : eventOf[m] = event})
                               IN  IF DOMAIN results = {}
                                   THEN Skip("no settleable selections found")
                                   ELSE [call |-> TRUE, reason |-> "",
                                         homeScore |-> homeScore.val,
                                         awayScore |-> awayScore.val,
                                         results |-> results]

\* the AutoSettleResult of a run, with the rows the run works on and the
\* events it called settleEvent for
AutoRun(D) ==
    [D |-> D, settled |-> 0, skipped |-> 0, events |-> <<>>,
     skippedDetails |-> <<>>, errors |-> <<>>, called |-> {}]

autoSettleEvent(R, event, scores, fault) ==
    With(resolveEvent(event, scores), LAMBDA c :
        IF ~c.call
        THEN [R EXCEPT !.skippedDetails =
                           Append(@, [event |-> event, reason |-> c.reason]),
                       !.skipped = @ + 1]
        ELSE With(settleRun([R.D EXCEPT !.settled = 0, !.totalPaid = 0,
                                        !.errors = {}, !.threw = FALSE],
                            event, c.results, fault), LAMBDA D1 :
                 IF D1.threw
                 THEN [R EXCEPT !.D = D1, !.called = @ \cup {event},
                                !.errors = Append(@, [of |-> event,
                                                      kind |-> "settleEvent"])]
                 ELSE [R EXCEPT !.D = D1, !.called = @ \cup {event},
                                !.settled = @ + 1,
                                !.events = Append(@,
                                    [event |-> event,
                                     homeScore |-> c.homeScore,
                                     awayScore |-> c.awayScore,
                                     settled |-> D1.settled,
                                     totalPaid |-> D1.totalPaid])]))

RECURSIVE autoSettleEvents(_, _, _, _)
autoSettleEvents(R, events, scores, fault) ==
    IF events = <<>> THEN R
    ELSE With(autoSettleEvent(R, Head(events), scores, fault), LAMBDA R1 :
             autoSettleEvents(R1, Tail(events), scores, fault))

\* the keys of bySport, in order of first appearance
RECURSIVE sportKeys(_)
sportKeys(events) ==
    IF events = <<>> THEN <<>>
    ELSE <<sportOf[Head(events)]>>
           \o SelectSeq(sportKeys(Tail(events)),
                        LAMBDA k : k # sportOf[Head(events)])

RECURSIVE autoSettleSports(_, _, _, _, _)
autoSettleSports(R, keys, staleEvents, feed, fault) ==
    IF keys = <<>> THEN R
    ELSE LET sportKey == Head(keys)
             events == SelectSeq(staleEvents, LAMBDA e : sportOf[e] = sportKey)
         IN  IF ~feed[sportKey].ok
             THEN autoSettleSports(
                      [R EXCEPT !.errors = Append(@, [of |-> sportKey,
                                                      kind |-> "fetch"])],
                      Tail(keys), staleEvents, feed, fault)
             ELSE With(autoSettleEvents(R, events, feed[sportKey].data, fault),
                       LAMBDA R1 :
                          autoSettleSports(R1, Tail(keys), staleEvents, feed, fault))

\* events still open whose start time is before the cutoff
staleEventsOf(started) ==
    SelectSeq(EventOrder,
              LAMBDA e : e \in started /\ eventStatus[e] \in {"UPCOMING", "LIVE"})

runAutoSettle(keyConfigured, started, feed, fault) ==
    IF ~keyConfigured
    THEN [AutoRun(Db) EXCEPT !.errors = <<[of |-> "ODDS_API_KEY",
                                           kind |-> "config"]>>]
    ELSE With(staleEventsOf(started), LAMBDA staleEvents :
             autoSettleSports(AutoRun(Db), sportKeys(staleEvents), staleEvents,
                              feed, fault))

\* ---- the score feed ----

NullScores == [isNull |-> TRUE, list |-> <<>>]
ScoreList(l) == [isNull |-> FALSE, list |-> l]
ScoreOf(name, score) == [name |-> name, score |-> score]

ScoreRecord(id, home, away, completed, scores) ==
    [id |-> id, home_team |-> home, away_team |-> away,
     completed |-> completed, scores |-> scores]

\* e1's game: found by external id under other team names, or by its
\* team names under another id
ById(completed, scores) ==
    ScoreRecord("x1", "Los Angeles Lakers", "Golden State Warriors",
                completed, scores)
ByName(completed, scores) ==
    ScoreRecord("zz", " sacramento kings", "Golden State Warriors",
                completed, scores)
OtherGame ==
    ScoreRecord("zz", "Los Angeles Lakers", "Golden State Warriors", TRUE,
                ScoreList(<<ScoreOf("Los Angeles Lakers", "110"),
                            ScoreOf("Golden State Warriors", "102")>>))
Final(h, a) ==
    ScoreList(<<ScoreOf("Sacramento Kings", h),
                ScoreOf("Golden State Warriors", a)>>)

Fetched(data) == [ok |-> TRUE, data |-> data]
FetchFailed == [ok |-> FALSE, data |-> <<>>]
NotFetched == FetchFailed

NbaFeeds ==
    { FetchFailed,
      Fetched(<<>>),
      Fetched(<<OtherGame>>),
      Fetched(<<ById(FALSE, Final("110", "102"))>>),
      Fetched(<<ByName(TRUE, NullScores)>>),
      Fetched(<<ByName(TRUE, ScoreList(<<ScoreOf("Sacramento Kings", "110")>>))>>),
      Fetched(<<ById(TRUE, ScoreList(<<ScoreOf("Los Angeles Lakers", "110"),
                                       ScoreOf("Golden State Warriors", "102")>>))>>),
      Fetched(<<ByName(TRUE, Final("F", "102"))>>),
      Fetched(<<ById(TRUE, Final("110", "102"))>>),
      Fetched(<<ByName(TRUE, Final("100", "100"))>>),
      Fetched(<<OtherGame, ByName(TRUE, Final("98 OT", "102"))>>) }

NhlFeeds ==
    { FetchFailed,
      Fetched(<<ScoreRecord("y2", "New York Rangers", "Pittsburgh Penguins", TRUE,
                  ScoreList(<<ScoreOf("New York Rangers", "100"),
                              ScoreOf("Pittsburgh Penguins", "98 OT")>>))>>) }

\* one response per sport that has a stale event
Feeds(staleEvents) ==
    LET asked == {sportOf[staleEvents[i]] : i \in DOMAIN staleEvents}
    IN  {[k \in Sports |-> IF k = "basketball_nba" THEN nba ELSE nhl] :
            nba \in (IF "basketball_nba" \in asked THEN NbaFeeds ELSE {NotFetched}),
            nhl \in (IF "icehockey_nhl" \in asked THEN NhlFeeds ELSE {NotFetched})}

\* the events whose start time is more than three hours back
StartedSets == {{}, {"e1"}, {"e1", "e2"}}

\* a write that makes settleEvent itself throw
AutoFaults ==
    {NoFault} \cup {[kind |-> "parlay", id |-> p, at |-> w] :
                       p \in DOMAIN parlays, w \in P_PARLAY..P_TRANSACTION}

RunAutoSettle ==
    \E keyConfigured \in BOOLEAN, started \in StartedSets :
      \E feed \in (IF keyConfigured THEN Feeds(staleEventsOf(started))
                                    ELSE {[k \in Sports |-> NotFetched]}) :
        \E fault \in (IF keyConfigured THEN AutoFaults ELSE {NoFault}) :
          \E R \in {runAutoSettle(keyConfigured, started, feed, fault)} :
            /\ eventStatus' = R.D.eventStatus
            /\ marketStatus' = R.D.marketStatus
            /\ wallet' = R.D.wallet
            /\ bets' = R.D.bets
            /\ settlements' = R.D.settlements
            /\ transactions' = R.D.transactions
            /\ exposureCache' = R.D.exposureCache
            /\ position' = R.D.position
            /\ parlays' = R.D.parlays
            /\ last' = [op |-> "autoSettle", keyConfigured |-> keyConfigured,
                        stale |-> {e \in started :
                                      eventStatus[e] \in {"UPCOMING", "LIVE"}},
                        feed |-> feed, called |-> R.called,
                        result |-> [settled |-> R.settled, skipped |-> R.skipped,
                                    events |-> R.events,
                                    skippedDetails |-> R.skippedDetails,
                                    errors |-> R.errors]]
            /\ UNCHANGED <<betRequests, dailyStake, redisUp, now, inflight>>

NextAuto ==
    \/ ParlayRequest
    \/ ParlayConfirm
    \/ RunAutoSettle

SpecAuto == InitOutage /\ [][NextAuto]_vars

\* ---- C17 ----

\* a score record of the event's sport matches the event, is completed,
\* holds a numeric score for each participant, and yields an outcome
resolvable(feed, event) ==
    /\ feed[sportOf[event]].ok
    /\ \E i \in DOMAIN feed[sportOf[event]].data :
         LET rec == feed[sportOf[event]].data[i]
             list == rec.scores.list
         IN  /\ matchScore(rec, event)
             /\ rec.completed
             /\ ~rec.scores.isNull
             /\ \E h, a \in DOMAIN list :
                  /\ norm(list[h].name) = norm(homeTeam[event])
                  /\ norm(list[a].name) = norm(awayTeam[event])
                  /\ ~parseInt(list[h].score).nan
                  /\ ~parseInt(list[a].score).nan
                  /\ DOMAIN buildResults(homeTeam[event], awayTeam[event],
                                parseInt(list[h].score).val,
                                parseInt(list[a].score).val,
                                {m \in Markets : eventOf[m] = event}) # {}

skippedEntries(result, event) ==
    {i \in DOMAIN result.skippedDetails : result.skippedDetails[i].event = event}

\* the run left the event as it was; a run that called settleEvent for no
\* event left every wallet as it was
leftAlone(event) ==
    /\ eventStatus'[event] = eventStatus[event]
    /\ \A m \in Markets : eventOf[m] = event => marketStatus'[m] = marketStatus[m]
    /\ \A i \in DOMAIN bets :
          bets[i].selectionId \in selectionsOf(event) => bets'[i] = bets[i]
    /\ last'.called = {} => wallet' = wallet

C17_Step ==
    last'.op = "autoSettle" =>
        /\ \A e \in last'.stale :
              /\ e \in last'.called => resolvable(last'.feed, e)
              /\ e \notin last'.called =>
                    /\ leftAlone(e)
                    /\ Cardinality(skippedEntries(last'.result, e)) = 1
        /\ last'.result.skipped = Cardinality(last'.stale \ last'.called)

\* C17: runAutoSettle calls settleEvent for a stale event only if a matching
\* completed score record with numeric scores for both participants and a
\* non-empty outcome map exists; every other stale event is left unchanged
\* and counted in skipped with one skippedDetails entry.
C17_SkipsEveryOther == [][C17_Step]_vars

\* the sport's scores were asked for and came back
scoresFetched(event) == last'.keyConfigured /\ last'.feed[sportOf[event]].ok

C17_AmendedStep ==
    last'.op = "autoSettle" =>
        /\ \A e \in last'.stale :
              /\ e \in last'.called => resolvable(last'.feed, e)
              /\ e \notin last'.called =>
                    /\ leftAlone(e)
                    /\ Cardinality(skippedEntries(last'.result, e))
                          = IF scoresFetched(e) THEN 1 ELSE 0
                    /\ ~scoresFetched(e) =>
                          \E i \in DOMAIN last'.result.errors :
                              last'.result.errors[i].of
                                  = IF last'.keyConfigured THEN sportOf[e]
                                    ELSE "ODDS_API_KEY"
        /\ last'.result.skipped =
              Cardinality({e \in last'.stale \ last'.called : scoresFetched(e)})

\* C17 (amended): as C17 for the events whose sport's scores were fetched;
\* when the API key is missing or the sport's fetch fails, the stale event
\* is left unchanged, is not counted in skipped and has no skippedDetails
\* entry: the run records one error for the key or for the sport instead.
C17_SkipsEveryFetched == [][C17_AmendedStep]_vars

\* a run that settled one stale event and skipped the other
C17_Witness ==
    /\ last.op = "autoSettle"
    /\ last.stale = {"e1", "e2"}
    /\ last.called = {"e1"}
    /\ last.result.settled = 1
    /\ last.result.skipped = 1
    /\ eventStatus = [e \in Events |-> IF e = "e1" THEN "SETTLED" ELSE "UPCOMING"]
    /\ bets[1].status # "ACTIVE"

-----------------------------------------------------------------------------
(* C18: the decision along the odds ladder *)

OddsLadder == {-300, -200, -160, -150, -140, -100, 100, 130, 200}

\* odds a pay the bettor more per unit staked than odds b
moreFavourable(a, b) == FGt(americanToDecimal(a), americanToDecimal(b))

\* the same request evaluated at two prices on the same book
EvaluatePair ==
    \E userId \in Users, selectionId \in Selections, stake \in PricingStakes :
      \E requestedOdds \in OddsLadder, betterOdds \in OddsLadder :
        /\ last = Quiet
        /\ moreFavourable(betterOdds, requestedOdds)
        /\ last' = [op |-> "evaluatePair", userId |-> userId,
                    selectionId |-> selectionId, stake |-> stake,
                    requestedOdds |-> requestedOdds,
                    betterOdds |-> betterOdds,
                    result |-> evaluateBetRequest(userId, selectionId,
                                                  requestedOdds, stake),
                    betterResult |-> evaluateBetRequest(userId, selectionId,
                                                        betterOdds, stake)]
        /\ UNCHANGED <<wallet, betRequests, bets, parlays, settlements,
                       transactions, exposureCache, position, dailyStake,
                       redisUp, marketStatus, eventStatus, now, inflight>>

NextLadder == EvaluatePair

SpecLadder == InitPricing /\ [][NextLadder]_vars

\* C18: on the same book, for the same user, selection and stake, a request
\* that is not accepted at some odds is not accepted at any odds more
\* favourable to the bettor.
C18_AcceptMonotone ==
    (last.op = "evaluatePair" /\ last.result.decision # "ACCEPT")
        => last.betterResult.decision # "ACCEPT"

\* a request countered at one price and rejected at a better one, on a
\* selection where some worse price is accepted
C18_Witness ==
    /\ last.op = "evaluatePair"
    /\ last.result.decision = "COUNTER"
    /\ last.betterResult.decision = "REJECT"
    /\ \E o \in OddsLadder :
          /\ moreFavourable(last.requestedOdds, o)
          /\ evaluateBetRequest(last.userId, last.selectionId, o, last.stake)
                 .decision = "ACCEPT"

-----------------------------------------------------------------------------
(* C19: the counter price against the consensus price *)

\* the request just evaluated on a priced selection was countered
counteredOnConsensus ==
    /\ last.op = "evaluate"
    /\ getConsensusOdds(last.selectionId) # NoOdds
    /\ last.result.decision = "COUNTER"

\* C19: the odds evaluateBetRequest counters with are never less favourable
\* to the bettor than the selection's consensus odds.
C19_CounterFlooredAtConsensus ==
    counteredOnConsensus =>
        ~moreFavourable(getConsensusOdds(last.selectionId),
                        last.result.acceptedOdds)

-----------------------------------------------------------------------------
(* C20: the balance against the Transaction log *)

TxTypes == {"DEPOSIT", "WITHDRAWAL", "BET_STAKE", "BET_PAYOUT", "BET_REFUND"}

txTypeSign(type) ==
    IF type \in {"WITHDRAWAL", "BET_STAKE"} THEN -1 ELSE 1

RECURSIVE SignedTotal(_, _)
SignedTotal(userId, types) ==
    IF types = {} THEN 0
    ELSE LET type == CHOOSE x \in types : TRUE
         IN  txTypeSign(type) * TxTotal(userId, type)
               + SignedTotal(userId, types \ {type})

\* C20: with no handler in progress, every wallet's balance equals the signed
\* sum of its Transaction amounts (DEPOSIT, BET_PAYOUT, BET_REFUND positive;
\* WITHDRAWAL, BET_STAKE negative).
C20_LogReconstructsBalance ==
    \A u \in Users : wallet[u].balance = SignedTotal(u, TxTypes)

-----------------------------------------------------------------------------
(* C21: the writes settleEvent makes for one bet or parlay, with one failing *)

\* parlays of userId that this step moves to a settled status
resolvedParlays(userId) ==
    {p \in DOMAIN parlays :
        /\ parlays[p].userId = userId
        /\ parlays[p].status \in {"PENDING", "ACTIVE"}
        /\ parlays'[p].status \in {"WON", "LOST", "VOIDED"}}

C21_Step ==
    last'.op = "settle" =>
        \A u \in Users :
            /\ \A i \in resolvedBets(u) : recordedOutcome(i) # "NONE"
            /\ wallet'[u].lockedBalance =
                   wallet[u].lockedBalance
                     - SumStakes(bets, resolvedBets(u))
                     - SumStakes(parlays, resolvedParlays(u))

\* C21: a settlement run, failing or not, never leaves a bet or parlay with a
\* settled status without its Settlement record and its wallet update: every
\* bet the run resolves has its Settlement row, and the owner's lockedBalance
\* has been released by the stake of every bet and parlay the run resolved.
C21_SettlementAtomic == [][C21_Step]_vars

-----------------------------------------------------------------------------
(* C22: wagers on an event that has been settled *)

eventOfSelection(selectionId) == eventOf[marketOf[selectionId]]

\* bets this step creates (a Bet row is created ACTIVE)
newBets == DOMAIN bets' \ DOMAIN bets

\* parlays this step creates ACTIVE or moves to ACTIVE
newActiveParlays ==
    {p \in DOMAIN parlays' :
        /\ parlays'[p].status = "ACTIVE"
        /\ (p \in DOMAIN parlays => parlays[p].status # "ACTIVE")}

C22_Step ==
    /\ \A i \in newBets :
          eventStatus[eventOfSelection(bets'[i].selectionId)] # "SETTLED"
    /\ \A p \in newActiveParlays :
          \A l \in DOMAIN parlays'[p].legs :
              eventStatus[eventOfSelection(parlays'[p].legs[l].selectionId)]
                  # "SETTLED"

\* C22: once settleEvent has marked an event SETTLED, no step of a bet
\* request, bet confirm, parlay request or parlay confirm makes a Bet on one
\* of its selections, or a Parlay with a leg on one of them, ACTIVE.
C22_NoWagerAfterSettle == [][C22_Step]_vars

-----------------------------------------------------------------------------
(* C23: confirm attempts on one request, interleaved                       *)
(* A confirm handler reads the request, and if the offer has expired marks  *)
(* it EXPIRED at once; otherwise it reads market and wallet and writes      *)
(* later, while other confirm attempts are served.                          *)

BetConfirmLate ==
    \E userId \in Users, requestId \in DOMAIN betRequests :
        /\ BetConfirmFound(userId, requestId)
        /\ isExpired(betRequests[requestId].expiresAt, now)
        /\ BetConfirmExpire(userId, requestId)
        /\ UNCHANGED inflight

NextConfirm ==
    \/ Deposit
    \/ BetRequest
    \/ BetConfirmBegin
    \/ BetConfirmCommit
    \/ BetConfirmLate
    \/ Tick

SpecConfirm == Init /\ [][NextConfirm]_vars

terminalRequest(r) == betRequests[r].status \in {"CONFIRMED", "REJECTED", "EXPIRED"}

betsFrom(rows, r) == {i \in DOMAIN rows : rows[i].betRequestId = r}

C23_Step ==
    /\ \A r \in DOMAIN betRequests :
          terminalRequest(r) => betRequests'[r].status = betRequests[r].status
    /\ \A r \in DOMAIN betRequests' : Cardinality(betsFrom(bets', r)) <= 1

\* C23: however confirm attempts on a request interleave, a BetRequest that
\* is CONFIRMED, REJECTED or EXPIRED keeps that status, and no BetRequest has
\* more than one Bet (each Bet is created together with its stake lock).
C23_RequestTerminal == [][C23_Step]_vars

-----------------------------------------------------------------------------
(* C24: the exposure released by a settlement run *)

\* bets on the selection that this step moves out of ACTIVE
resolvedBetsOn(selectionId) ==
    {i \in DOMAIN bets :
        /\ bets[i].selectionId = selectionId
        /\ bets[i].status = "ACTIVE"
        /\ bets'[i].status # "ACTIVE"}

C24_Step ==
    last'.op = "settle" =>
        \A sel \in Selections :
            getCurrentExposure(sel)' =
                getCurrentExposure(sel) - SumLiability(bets, resolvedBetsOn(sel))

\* C24: a settlement run lowers the exposure of each selection by exactly the
\* liability (potentialPayout - stake) of the bets on it that the run moves
\* out of ACTIVE, whatever their outcome.
C24_ExposureReleasedOnce == [][C24_Step]_vars

-----------------------------------------------------------------------------
(* C25: the stake a user puts on in one day                                *)
(* One user with a 50,000.00 deposit places maximum-stake single bets and   *)
(* confirms counter offers, all within the offers' window on one day.       *)

MaxDailyWagers == 6
DailyInputs == { <<"s1", -200>>, <<"s1", -150>> }
DailyStakes == {500000}

InitDaily ==
    /\ wallet = [u \in Users |-> [balance |-> 5000000, lockedBalance |-> 0]]
    /\ betRequests = <<>>
    /\ bets = <<>>
    /\ parlays = <<>>
    /\ settlements = {}
    /\ transactions = Tx("u1", "DEPOSIT", 5000000)
    /\ exposureCache = [s \in Selections |-> Absent]
    /\ position = [s \in Selections |-> 0]
    /\ dailyStake = [u \in Users |-> Absent]
    /\ redisUp = TRUE
    /\ marketStatus = [m \in Markets |-> "OPEN"]
    /\ eventStatus = [e \in Events |-> "UPCOMING"]
    /\ now = 0
    /\ inflight = <<>>
    /\ last = Quiet

LargeBetRequest ==
    \E userId \in Users, input \in DailyInputs, stake \in DailyStakes :
        \E r \in {BetRequestRead(userId, input[1], input[2], stake)} :
        /\ Len(betRequests) < MaxDailyWagers
        /\ r.ok
        /\ BetRequestWrite(userId, input[1], input[2], stake, r.result)
        /\ UNCHANGED inflight

NextDaily ==
    \/ LargeBetRequest
    \/ BetConfirm

SpecDaily == InitDaily /\ [][NextDaily]_vars

\* C25: the stakes of a user's wagers that became ACTIVE during the day
\* (every Bet row, and every ACTIVE parlay) never add up to more than the
\* max-daily-stake limit.
C25_DailyCap ==
    \A u \in Users :
        SumStakes(bets, betsOf(u)) + SumStakes(parlays, activeParlaysOf(u))
            <= Cents(MAX_DAILY_STAKE)

-----------------------------------------------------------------------------
(* C26: the liability carried on one selection                             *)
(* The book of InitDaily over several days: maximum-stake requests on s2,   *)
(* one at a time, each answered and (if countered) confirmed or left.       *)

MaxExposureWagers == 10
ExposureInputs == { <<"s2", 115>> }

ExposureBetRequest ==
    \E userId \in Users, input \in ExposureInputs, stake \in DailyStakes :
        \E r \in {BetRequestRead(userId, input[1], input[2], stake)} :
        /\ Len(betRequests) < MaxExposureWagers
        /\ r.ok
        /\ BetRequestWrite(userId, input[1], input[2], stake, r.result)
        /\ UNCHANGED inflight

\* midnight: the daily-stake key carries the date, so the next day's reads
\* find no key; no counter offer is left open overnight
DayRollover ==
    /\ \E u \in Users : dailyStake[u].has
    /\ \A r \in DOMAIN betRequests : betRequests[r].status # "COUNTERED"
    /\ dailyStake' = [u \in Users |-> Absent]
    /\ last' = Quiet
    /\ UNCHANGED <<wallet, betRequests, bets, parlays, settlements, transactions,
                   exposureCache, position, redisUp, marketStatus, eventStatus,
                   now, inflight>>

NextExposure ==
    \/ ExposureBetRequest
    \/ BetConfirm
    \/ DayRollover

SpecExposure == InitDaily /\ [][NextExposure]_vars

\* C26: after any sequence of single-bet requests and counter confirmations,
\* one at a time, the liability carried on a selection (the sum of
\* potentialPayout - stake over its ACTIVE bets) is at most the
\* max-selection-exposure limit.
C26_LiabilityWithinCap ==
    \A sel \in Selections :
        SumLiability(bets, activeBetsOn(bets, sel)) <= Cents(MAX_SELECTION_EXPOSURE)

-----------------------------------------------------------------------------
(* C27: settlement and the parlay that was countered and never confirmed    *)

\* parlays of userId, ACTIVE before this step, that the step moves out of ACTIVE
resolvedActiveParlays(userId) ==
    {p \in DOMAIN parlays :
        /\ parlays[p].userId = userId
        /\ parlays[p].status = "ACTIVE"
        /\ parlays'[p].status # "ACTIVE"}

\* the Transaction rows of userId's wallet, with their counts
txOf(rows, userId) ==
    [t \in {x \in BagToSet(rows) : x.walletId = userId} |-> CopiesIn(t, rows)]

\* the user has a PENDING parlay and nothing of theirs that holds a lock is
\* resolved by this step
onlyPendingParlays(userId) ==
    /\ \E p \in DOMAIN parlays :
           parlays[p].userId = userId /\ parlays[p].status = "PENDING"
    /\ resolvedBets(userId) = {}
    /\ resolvedActiveParlays(userId) = {}

C27_Step ==
    last'.op = "settle" =>
        \A u \in Users :
            onlyPendingParlays(u) =>
                /\ wallet'[u].balance = wallet[u].balance
                /\ wallet'[u].lockedBalance = wallet[u].lockedBalance
                /\ txOf(transactions', u) = txOf(transactions, u)

\* C27: a parlay that was countered and never confirmed (status PENDING, no
\* stake locked) is never settled: settleEvent neither credits its owner's
\* balance, nor decrements the owner's lockedBalance, nor writes a payout or
\* refund Transaction for it.
C27_PendingParlayNotSettled == [][C27_Step]_vars

-----------------------------------------------------------------------------
(* C28: two settleEvent runs on the same event and outcome map, overlapping *)
(* Each run advances one database call (or one bet / one parlay) at a time; *)
(* inflight holds the two runs with what each has read so far.              *)

\* Bet.settlement is a one-to-one relation, so Settlement.betId is unique:
\* settlement.create for a bet that already has a row throws, inside the
\* try block of that bet
settlementExists(i) == \E st \in settlements : st.betId = i

SettleRunOf(eventId, results) ==
    [op |-> "settle", pc |-> "mark", eventId |-> eventId, results |-> results,
     k |-> 1, todo |-> {}, ptodo |-> {}, snap |-> <<>>,
     single |-> settleRun(Db, eventId, results, NoFault).wallet]

\* the writes of one step of run r, which continues as rec
RaceWrite(D, r, rec) ==
    /\ eventStatus' = D.eventStatus
    /\ marketStatus' = D.marketStatus
    /\ wallet' = D.wallet
    /\ bets' = D.bets
    /\ settlements' = D.settlements
    /\ transactions' = D.transactions
    /\ exposureCache' = D.exposureCache
    /\ position' = D.position
    /\ parlays' = D.parlays
    /\ inflight' = [inflight EXCEPT ![r] = rec]
    /\ last' = Quiet
    /\ UNCHANGED <<betRequests, dailyStake, redisUp, now>>

\* the admin route and the scheduler's run both call settleEvent; neither
\* looks for a run already in progress
RaceStart ==
    \E eventId \in Events : \E results \in CompleteResults(eventId) :
        /\ inflight = <<>>
        /\ Len(bets) + Len(parlays) > 0
        /\ inflight' = <<SettleRunOf(eventId, results), SettleRunOf(eventId, results)>>
        /\ last' = Quiet
        /\ UNCHANGED <<wallet, betRequests, bets, parlays, settlements, transactions,
                       exposureCache, position, dailyStake, redisUp, marketStatus,
                       eventStatus, now>>

\* event.update and market.updateMany
RaceMark(r) ==
    /\ inflight[r].pc = "mark"
    /\ RaceWrite([Db EXCEPT
                    !.eventStatus = [@ EXCEPT ![inflight[r].eventId] = "SETTLED"],
                    !.marketStatus = [m \in Markets |->
                                        IF eventOf[m] = inflight[r].eventId
                                        THEN "CLOSED" ELSE @[m]]],
                 r, [inflight[r] EXCEPT !.pc = "read"])

\* bet.findMany for the next entry of results, or on to the parlay legs
RaceReadBets(r) ==
    LET run == inflight[r] IN
    /\ run.pc = "read"
    /\ RaceWrite(Db, r,
           IF run.k > Len(SelOrder) THEN [run EXCEPT !.pc = "legs"]
           ELSE IF SelOrder[run.k] \notin DOMAIN run.results
           THEN [run EXCEPT !.k = @ + 1]
           ELSE [run EXCEPT !.pc = "bets",
                            !.todo = activeBetsOn(bets, SelOrder[run.k])])

\* the try block of one bet that the run has read
RaceSettleBet(r) ==
    LET run == inflight[r] IN
    /\ run.pc = "bets"
    /\ run.todo # {}
    /\ \E i \in {CHOOSE x \in run.todo : \A y \in run.todo : x <= y} :
           RaceWrite(settleBet(Db, i, run.results[SelOrder[run.k]],
                               IF settlementExists(i)
                               THEN [kind |-> "bet", id |-> i, at |-> W_SETTLEMENT]
                               ELSE NoFault),
                     r, [run EXCEPT !.todo = @ \ {i}])

\* position.updateMany after the last bet of the selection
RacePosition(r) ==
    LET run == inflight[r] IN
    /\ run.pc = "bets"
    /\ run.todo = {}
    /\ RaceWrite([Db EXCEPT !.position = [@ EXCEPT ![SelOrder[run.k]] = 0]],
                 r, [run EXCEPT !.pc = "read", !.k = @ + 1])

\* parlayLeg.updateMany for every entry of results
RaceLegs(r) ==
    LET run == inflight[r] IN
    /\ run.pc = "legs"
    /\ RaceWrite([Db EXCEPT !.parlays = settleLegs(@, run.results)],
                 r, [run EXCEPT !.pc = "find"])

\* parlay.findMany, legs included
RaceReadParlays(r) ==
    LET run == inflight[r] IN
    /\ run.pc = "find"
    /\ RaceWrite(Db, r, [run EXCEPT !.pc = "parlays",
                                    !.ptodo = affectedParlays(parlays, run.results),
                                    !.snap = parlays])

\* one parlay that the run has read, resolved from the rows as they were read
RaceSettleParlay(r) ==
    LET run == inflight[r] IN
    /\ run.pc = "parlays"
    /\ run.ptodo # {}
    /\ \E p \in {CHOOSE x \in run.ptodo : \A y \in run.ptodo : x <= y} :
       \E D \in {settleParlay([Db EXCEPT !.parlays = [@ EXCEPT ![p] = run.snap[p]]],
                              p, NoFault)} :
           RaceWrite([D EXCEPT !.parlays =
                         [parlays EXCEPT ![p] =
                             [@ EXCEPT !.status = D.parlays[p].status,
                                       !.potentialPayout = D.parlays[p].potentialPayout]]],
                     r, [run EXCEPT !.ptodo = @ \ {p}])

RaceReturn(r) ==
    LET run == inflight[r] IN
    /\ run.pc = "parlays"
    /\ run.ptodo = {}
    /\ RaceWrite(Db, r, [run EXCEPT !.pc = "done"])

RaceDeposit == inflight = <<>> /\ Deposit
RaceBetRequest == inflight = <<>> /\ BetRequest
RaceParlayRequest == inflight = <<>> /\ ParlayRequest
RaceParlayConfirm == inflight = <<>> /\ ParlayConfirm

NextRace ==
    \/ RaceDeposit
    \/ RaceBetRequest
    \/ RaceParlayRequest
    \/ RaceParlayConfirm
    \/ RaceStart
    \/ \E r \in 1..2 : r \in DOMAIN inflight /\ RaceMark(r)
    \/ \E r \in 1..2 : r \in DOMAIN inflight /\ RaceReadBets(r)
    \/ \E r \in 1..2 : r \in DOMAIN inflight /\ RaceSettleBet(r)
    \/ \E r \in 1..2 : r \in DOMAIN inflight /\ RacePosition(r)
    \/ \E r \in 1..2 : r \in DOMAIN inflight /\ RaceLegs(r)
    \/ \E r \in 1..2 : r \in DOMAIN inflight /\ RaceReadParlays(r)
    \/ \E r \in 1..2 : r \in DOMAIN inflight /\ RaceSettleParlay(r)
    \/ \E r \in 1..2 : r \in DOMAIN inflight /\ RaceReturn(r)

SpecRace == Init /\ [][NextRace]_vars

bothReturned ==
    /\ Len(inflight) = 2
    /\ \A r \in 1..2 : inflight[r].pc = "done"

\* C28: for any interleaving of two settleEvent runs on the same event and
\* outcome map, each bet and each parlay is paid or refunded at most once and
\* its lock released at most once: every wallet ends with the balance and
\* lockedBalance a single run leaves.
C28_SettledOnce ==
    bothReturned => \A u \in Users : wallet[u] = inflight[1].single[u]

-----------------------------------------------------------------------------
(* C29: the cached exposure against the durable aggregate                   *)

\* C29: whenever the cache is reachable and holds an exposure value for a
\* selection, and no exposure update is in progress (every handler here runs
\* to completion alone), the cached value equals Position.totalLiability; so
\* incrementExposure(sel, d) on an absent key with durable value X leaves
\* getCurrentExposure(sel) = X + d.
C29_CacheMatchesDurable ==
    \A sel \in Selections :
        (redisUp /\ exposureCache[sel].has) =>
            exposureCache[sel].val = position[sel]

-----------------------------------------------------------------------------
(* C30: the bets of a settled event                                         *)

\* bets on a selection of one of the event's markets
betsOnEvent(eventId) ==
    {i \in DOMAIN bets : eventOfSelection(bets[i].selectionId) = eventId}

\* C30: once an event is SETTLED no bet on any selection of that event's
\* markets remains ACTIVE, also when the outcome map given to settleEvent
\* leaves out some of the event's selections.
C30_SettledEventHasNoActiveBet ==
    \A e \in Events :
        eventStatus[e] = "SETTLED" =>
            \A i \in betsOnEvent(e) : bets[i].status # "ACTIVE"

====
